---- MODULE Spec2Model ----
(***************************************************************************)
(* A model of the dynamic-color engine of material-color-utilities.        *)
(*                                                                         *)
(* Numbers.  The code computes in IEEE doubles; the model computes in      *)
(* fixed point on integers:                                                *)
(*   - a tone (L-star) is counted in tenths:        49.0  is  490          *)
(*   - a luminance Y (0..100) in thousandths:       18.4  is  18400        *)
(*   - a contrast ratio in hundredths:              4.5   is  450          *)
(*   - a contrast level (-1..1) in hundredths:      0.5   is  50           *)
(* Every operator is computed the way the code computes it, and rounds     *)
(* down to the grid where the code would keep more digits.                 *)
(***************************************************************************)
EXTENDS Integers, Sequences, FiniteSets, TLC

(***************************************************************************)
(* utils/math_utils.ts                                                     *)
(***************************************************************************)
clampDouble(min, max, input) ==
  IF input < min THEN min ELSE IF input > max THEN max ELSE input

\* lerp(start, stop, amount) with amount = num / den
lerp(start, stop, num, den) ==
  ((den - num) * start + num * stop) \div den

Abs(x) == IF x < 0 THEN -x ELSE x

Max(a, b) == IF a > b THEN a ELSE b

Min(a, b) == IF a < b THEN a ELSE b

(***************************************************************************)
(* utils/color_utils.ts: Lstar <-> Y                                       *)
(* labInvf takes the cube when ft^3 > 216/24389, that is when Lstar > 8.   *)
(*   Y = 100 * ((Lstar + 16) / 116)^3     and in the model's units         *)
(*   Y[1/1000] = (t + 160)^3 / 15608.96,   t = Lstar in tenths             *)
(* and below that Y = 100 * Lstar / kappa, kappa = 24389 / 27.             *)
(***************************************************************************)
yFromLstar(lstar) ==
  IF lstar > 80
    THEN ((lstar + 160) * (lstar + 160) * (lstar + 160)) \div 15609
    ELSE (270000 * lstar) \div 24389

\* The largest tone n in lo..hi with yFromLstar(n) <= y (bisection).
RECURSIVE ToneBelowY(_, _, _)
ToneBelowY(lo, hi, y) ==
  IF lo >= hi THEN lo
  ELSE LET mid == (lo + hi + 1) \div 2
       IN IF yFromLstar(mid) <= y THEN ToneBelowY(mid, hi, y)
                                  ELSE ToneBelowY(lo, mid - 1, y)

\* lstarFromY is the inverse of yFromLstar.  The callers only ask whether the
\* result is within 0..100, so a Y above that of L* = 100 gives 100.1 and a
\* negative Y gives its (negative) L* on the linear branch.
lstarFromY(y) ==
  IF y < 0 THEN -((((-y) * 24389) + 269999) \div 270000)
  ELSE ToneBelowY(0, 1001, y)

(***************************************************************************)
(* contrast/contrast.ts                                                    *)
(***************************************************************************)
ratioOfYs(y1, y2) ==
  LET lighter == IF y1 > y2 THEN y1 ELSE y2
      darker  == IF lighter = y2 THEN y1 ELSE y2
  IN ((lighter + 5000) * 100) \div (darker + 5000)

ratioOfTones(toneA, toneB) ==
  ratioOfYs(yFromLstar(clampDouble(0, 1000, toneA)),
            yFromLstar(clampDouble(0, 1000, toneB)))

\* part_001 1664-1667 and 1685-1688: the checks Contrast.lighter and
\* Contrast.darker end with; -1 is the "unreachable" sentinel.
SafeTone(realContrast, ratio, returnValue) ==
  IF realContrast < ratio /\ Abs(realContrast - ratio) > 4 THEN -1
  ELSE IF returnValue < 0 \/ returnValue > 1000 THEN -1
  ELSE returnValue

LighterFromY(darkY, lightY, ratio) ==
  SafeTone(ratioOfYs(lightY, darkY), ratio, lstarFromY(lightY) + 4)

ContrastLighter(tone, ratio) ==
  IF tone < 0 \/ tone > 1000 THEN -1
  ELSE LighterFromY(yFromLstar(tone),
                    ((ratio * (yFromLstar(tone) + 5000)) \div 100) - 5000, ratio)

DarkerFromY(lightY, darkY, ratio) ==
  SafeTone(ratioOfYs(lightY, darkY), ratio, lstarFromY(darkY) - 4)

ContrastDarker(tone, ratio) ==
  IF tone < 0 \/ tone > 1000 THEN -1
  ELSE DarkerFromY(yFromLstar(tone),
                   (((yFromLstar(tone) + 5000) * 100) \div ratio) - 5000, ratio)

\* the unsafe variants without the replacement of the sentinel
OrElse_Sentinel(safe, fallback) == safe

\* lighterSafe < 0 ? 100 : lighterSafe, and darkerSafe < 0 ? 0 : darkerSafe
OrElse(safe, fallback) == IF safe < 0 THEN fallback ELSE safe

lighterUnsafe(tone, ratio) == OrElse(ContrastLighter(tone, ratio), 1000)

darkerUnsafe(tone, ratio) == OrElse(ContrastDarker(tone, ratio), 0)

(***************************************************************************)
(* dynamiccolor/contrast_curve.ts                                          *)
(* A curve is a record [low, normal, medium, high] of ratios.              *)
(***************************************************************************)
ContrastCurve(low, normal, medium, high) ==
  [low |-> low, normal |-> normal, medium |-> medium, high |-> high]

ContrastCurveGet(curve, contrastLevel) ==
  IF contrastLevel <= -100 THEN curve.low
  ELSE IF contrastLevel < 0
    THEN lerp(curve.low, curve.normal, contrastLevel + 100, 100)
  ELSE IF contrastLevel < 50
    THEN lerp(curve.normal, curve.medium, contrastLevel, 50)
  ELSE IF contrastLevel < 100
    THEN lerp(curve.medium, curve.high, contrastLevel - 50, 50)
  ELSE curve.high

(***************************************************************************)
(* dynamiccolor/dynamic_color.ts                                           *)
(*                                                                         *)
(* A scheme is a record [isDark, contrastLevel, specVersion].  A role      *)
(* table maps a role key to a DynamicColor, written with the values its    *)
(* functions take for the scheme at hand:                                  *)
(*   name             the name, as the sequence of its words               *)
(*                    ("primary_fixed_dim" is <<"primary","fixed","dim">>) *)
(*   tone             tone(scheme), the raw tone                           *)
(*   isBackground                                                          *)
(*   background, secondBackground   <<>> (undefined) or <<role key>>       *)
(*   contrastCurve                  <<>> (undefined) or <<curve>>          *)
(*   toneDeltaPair                  <<>> (undefined) or <<pair>>           *)
(* and a pair is [roleA, roleB, delta, polarity, stayTogether, constraint].*)
(* The local values of a method are the parameters of the operators that   *)
(* continue it.                                                            *)
(***************************************************************************)
\* Math.round(tone) < 60
tonePrefersLightForeground(tone) == ((tone + 5) \div 10) < 60

\* the choice without the negligible-difference rule
ForegroundChoice_NoNegligible(bgTone, ratio, lighterTone, darkerTone, lighterRatio, darkerRatio) ==
  IF tonePrefersLightForeground(bgTone)
    THEN IF lighterRatio >= ratio \/ lighterRatio >= darkerRatio
           THEN lighterTone ELSE darkerTone
    ELSE IF darkerRatio >= ratio \/ darkerRatio >= lighterRatio
           THEN darkerTone ELSE lighterTone

\* part_001 1957-1961
ForegroundChoice(bgTone, ratio, lighterTone, darkerTone, lighterRatio, darkerRatio) ==
  LET negligibleDifference ==
        /\ Abs(lighterRatio - darkerRatio) < 10
        /\ lighterRatio < ratio
        /\ darkerRatio < ratio
  IN IF tonePrefersLightForeground(bgTone)
       THEN IF \/ lighterRatio >= ratio
               \/ lighterRatio >= darkerRatio
               \/ negligibleDifference
              THEN lighterTone ELSE darkerTone
       ELSE IF darkerRatio >= ratio \/ darkerRatio >= lighterRatio
              THEN darkerTone ELSE lighterTone

\* part_001 1955-1956
ForegroundOf(bgTone, ratio, lighterTone, darkerTone) ==
  ForegroundChoice(bgTone, ratio, lighterTone, darkerTone,
                   ratioOfTones(lighterTone, bgTone), ratioOfTones(darkerTone, bgTone))

foregroundTone(bgTone, ratio) ==
  ForegroundOf(bgTone, ratio, lighterUnsafe(bgTone, ratio), darkerUnsafe(bgTone, ratio))

\* color.name.endsWith("_fixed_dim")
EndsWithFixedDim(name) ==
  /\ Len(name) >= 3
  /\ name[Len(name) - 1] = "fixed"
  /\ name[Len(name)] = "dim"

\* part_001 2071-2077 and 2138-2144
SecondBackgroundChoice(bgTone1, bgTone2, lightOption, darkOption) ==
  LET availables == (IF lightOption # -1 THEN <<lightOption>> ELSE <<>>)
                    \o (IF darkOption # -1 THEN <<darkOption>> ELSE <<>>)
      prefersLight == \/ tonePrefersLightForeground(bgTone1)
                      \/ tonePrefersLightForeground(bgTone2)
  IN IF prefersLight
       THEN (IF lightOption < 0 THEN 1000 ELSE lightOption)
     ELSE IF Len(availables) = 1 THEN availables[1]
     ELSE IF darkOption < 0 THEN 0 ELSE darkOption

\* The second-background step both delegates end with (part_001 2065-2077
\* and 2132-2144): answer is the tone found against the first background.
SecondBackgroundTone(answer, bgTone1, bgTone2, desiredRatio) ==
  IF /\ ratioOfTones(Max(bgTone1, bgTone2), answer) >= desiredRatio
     /\ ratioOfTones(Min(bgTone1, bgTone2), answer) >= desiredRatio
    THEN answer
    ELSE SecondBackgroundChoice(bgTone1, bgTone2,
           ContrastLighter(Max(bgTone1, bgTone2), desiredRatio),
           ContrastDarker(Min(bgTone1, bgTone2), desiredRatio))

(***************************************************************************)
(* ColorCalculationDelegateImpl2021.getTone, its steps                     *)
(***************************************************************************)
aIsNearer2021(polarity, isDark) ==
  \/ polarity = "nearer"
  \/ (polarity = "lighter" /\ ~isDark)
  \/ (polarity = "darker" /\ isDark)

\* part_001 2026 and 2029 (2027 and 2030, 2060-2061): the tone is replaced by
\* the foreground tone when it misses the ratio or contrast is decreasing.
ContrastTone2021(scheme, bgTone, contrast, tone) ==
  IF scheme.contrastLevel < 0 \/ ratioOfTones(bgTone, tone) < contrast
    THEN foregroundTone(bgTone, contrast)
    ELSE tone

\* part_001 2022-2032: both tones are raised to their curves against the
\* background of the color asked for; <<nTone, fTone>>.
PairContrast2021(scheme, bgTone, nCurve, fCurve, nTone, fTone) ==
  <<ContrastTone2021(scheme, bgTone,
                     ContrastCurveGet(nCurve, scheme.contrastLevel), nTone),
    ContrastTone2021(scheme, bgTone,
                     ContrastCurveGet(fCurve, scheme.contrastLevel), fTone)>>

\* the pair left as the contrast step gave it
EnforceDelta2021_Skipped(nTone, fTone, delta, expansionDir) == <<nTone, fTone>>

\* part_001 2034-2037: <<nTone, fTone>> with the delta enforced.
EnforceDelta2021(nTone, fTone, delta, expansionDir) ==
  IF (fTone - nTone) * expansionDir < delta
    THEN LET f1 == clampDouble(0, 1000, nTone + delta * expansionDir)
         IN IF (f1 - nTone) * expansionDir >= delta
              THEN <<nTone, f1>>
              ELSE <<clampDouble(0, 1000, f1 - delta * expansionDir), f1>>
    ELSE <<nTone, fTone>>

\* tones left where they landed
AwkwardZone2021_Skipped(nTone, fTone, delta, expansionDir, stayTogether) ==
  <<nTone, fTone>>

\* part_001 2038-2053: the awkward zone, <<nTone, fTone>>.
AwkwardZone2021(nTone, fTone, delta, expansionDir, stayTogether) ==
  IF 500 <= nTone /\ nTone < 600
    THEN IF expansionDir > 0
           THEN <<600, Max(fTone, 600 + delta * expansionDir)>>
           ELSE <<490, Min(fTone, 490 + delta * expansionDir)>>
  ELSE IF 500 <= fTone /\ fTone < 600
    THEN IF stayTogether
           THEN IF expansionDir > 0
                  THEN <<600, Max(fTone, 600 + delta * expansionDir)>>
                  ELSE <<490, Min(fTone, 490 + delta * expansionDir)>>
           ELSE IF expansionDir > 0 THEN <<nTone, 600>> ELSE <<nTone, 490>>
  ELSE <<nTone, fTone>>

\* part_001 2062-2063
AwkwardSolo2021(color, bgTone, desiredRatio, answer) ==
  IF color.isBackground /\ 500 <= answer /\ answer < 600
    THEN IF ratioOfTones(490, bgTone) >= desiredRatio THEN 490 ELSE 600
    ELSE answer

(***************************************************************************)
(* ColorCalculationDelegateImpl2025.getTone, its steps                     *)
(***************************************************************************)
absoluteDelta2025(pair, isDark) ==
  IF \/ pair.polarity = "darker"
     \/ (pair.polarity = "relative_lighter" /\ isDark)
     \/ (pair.polarity = "relative_darker" /\ ~isDark)
    THEN -pair.delta ELSE pair.delta

\* the raw tone kept whatever the constraint
Constraint2025_Ignored(constraint, selfTone, refTone, relativeDelta) == selfTone

\* part_001 2106-2110
Constraint2025(constraint, selfTone, refTone, relativeDelta) ==
  IF constraint = "exact"
    THEN clampDouble(0, 1000, refTone + relativeDelta)
  ELSE IF constraint = "nearer"
    THEN IF relativeDelta > 0
           THEN clampDouble(0, 1000,
                  clampDouble(refTone, refTone + relativeDelta, selfTone))
           ELSE clampDouble(0, 1000,
                  clampDouble(refTone + relativeDelta, refTone, selfTone))
  ELSE IF constraint = "farther"
    THEN IF relativeDelta > 0
           THEN clampDouble(refTone + relativeDelta, 1000, selfTone)
           ELSE clampDouble(0, refTone + relativeDelta, selfTone)
  ELSE selfTone

\* part_001 2117 and 2128, desiredRatio being the curve's ratio for the scheme
ContrastTone2025(scheme, bgTone, desiredRatio, tone) ==
  IF ratioOfTones(bgTone, tone) >= desiredRatio /\ scheme.contrastLevel >= 0
    THEN tone
    ELSE foregroundTone(bgTone, desiredRatio)

\* the tone returned as the contrast step gave it
Bucket2025_Skipped(color, tone) == tone

\* part_001 2120-2121 and 2129-2130
Bucket2025(color, tone) ==
  IF color.isBackground /\ ~EndsWithFixedDim(color.name)
    THEN IF tone >= 570 THEN clampDouble(650, 1000, tone)
                        ELSE clampDouble(0, 490, tone)
    ELSE tone

(***************************************************************************)
(* getTone: DynamicColor.getTone asks the delegate of the scheme's spec    *)
(* version, and the delegates ask getTone of backgrounds and partners.     *)
(***************************************************************************)
RECURSIVE getTone(_, _, _)

\* part_001 2018-2033, <<nTone, fTone>>
PairAdjusted2021(scheme, T, color, nearer, farther) ==
  IF /\ color.background # <<>>
     /\ nearer.contrastCurve # <<>>
     /\ farther.contrastCurve # <<>>
    THEN PairContrast2021(scheme, getTone(scheme, T, color.background[1]),
                          nearer.contrastCurve[1], farther.contrastCurve[1],
                          nearer.tone, farther.tone)
    ELSE <<nearer.tone, farther.tone>>

\* part_001 2038-2054: the pair at the return, with the tones it had when it
\* entered the awkward-zone step
PairFinal2021(amNearer, landed, final) ==
  [nTone |-> final[1], fTone |-> final[2], amNearer |-> amNearer,
   nLanded |-> landed[1], fLanded |-> landed[2]]

PairLanded2021(amNearer, pair, expansionDir, landed) ==
  PairFinal2021(amNearer, landed,
    AwkwardZone2021(landed[1], landed[2], pair.delta, expansionDir, pair.stayTogether))

PairSpaced2021(amNearer, pair, expansionDir, adjusted) ==
  PairLanded2021(amNearer, pair, expansionDir,
    EnforceDelta2021(adjusted[1], adjusted[2], pair.delta, expansionDir))

\* The pair branch of the 2021 delegate up to its return:
\* [nTone, fTone, amNearer, nLanded, fLanded]
TonePair2021(scheme, T, key) ==
  LET color == T[key]
      pair == color.toneDeltaPair[1]
      near == aIsNearer2021(pair.polarity, scheme.isDark)
      nearer == IF near THEN T[pair.roleA] ELSE T[pair.roleB]
      farther == IF near THEN T[pair.roleB] ELSE T[pair.roleA]
  IN PairSpaced2021(color.name = nearer.name, pair,
                    IF scheme.isDark THEN 1 ELSE -1,
                    PairAdjusted2021(scheme, T, color, nearer, farther))

\* return amNearer ? nTone : fTone
PairAnswer2021(r) == IF r.amNearer THEN r.nTone ELSE r.fTone

\* part_001 2064-2077 and 2131-2144
WithSecondBackground(scheme, T, color, answer, bgTone, desiredRatio) ==
  IF color.secondBackground = <<>>
    THEN answer
    ELSE SecondBackgroundTone(answer, bgTone,
           getTone(scheme, T, color.secondBackground[1]), desiredRatio)

\* part_001 2058-2077
Solo2021(scheme, T, color, bgTone, desiredRatio) ==
  WithSecondBackground(scheme, T, color,
    AwkwardSolo2021(color, bgTone, desiredRatio,
      ContrastTone2021(scheme, bgTone, desiredRatio, color.tone)),
    bgTone, desiredRatio)

getTone2021(scheme, T, key) ==
  IF T[key].toneDeltaPair # <<>>
    THEN PairAnswer2021(TonePair2021(scheme, T, key))
  ELSE IF T[key].background = <<>> \/ T[key].contrastCurve = <<>>
    THEN T[key].tone
  ELSE Solo2021(scheme, T, T[key], getTone(scheme, T, T[key].background[1]),
                ContrastCurveGet(T[key].contrastCurve[1], scheme.contrastLevel))

\* part_001 2111-2119
PairContrast2025(scheme, T, color, selfTone) ==
  IF color.background # <<>> /\ color.contrastCurve # <<>>
    THEN ContrastTone2025(scheme, getTone(scheme, T, color.background[1]),
           ContrastCurveGet(color.contrastCurve[1], scheme.contrastLevel), selfTone)
    ELSE selfTone

\* part_001 2111-2122: the pair at the return, with the tone of the self
\* role after the constraint step and after the contrast step
PairFinal2025(color, refTone, relativeDelta, constrained, contrasted) ==
  [selfTone |-> Bucket2025(color, contrasted), refTone |-> refTone,
   relativeDelta |-> relativeDelta, constrained |-> constrained,
   contrasted |-> contrasted]

PairConstrained2025(scheme, T, color, refTone, relativeDelta, constrained) ==
  PairFinal2025(color, refTone, relativeDelta, constrained,
                PairContrast2025(scheme, T, color, constrained))

PairRef2025(scheme, T, color, pair, selfRole, refTone, relativeDelta) ==
  PairConstrained2025(scheme, T, color, refTone, relativeDelta,
    Constraint2025(pair.constraint, selfRole.tone, refTone, relativeDelta))

\* The pair branch of the 2025 delegate up to its return:
\* [selfTone, refTone, relativeDelta, constrained, contrasted]
TonePair2025(scheme, T, key) ==
  LET color == T[key]
      pair == color.toneDeltaPair[1]
      amRoleA == color.name = T[pair.roleA].name
  IN PairRef2025(scheme, T, color, pair,
       IF amRoleA THEN T[pair.roleA] ELSE T[pair.roleB],
       getTone(scheme, T, IF amRoleA THEN pair.roleB ELSE pair.roleA),
       absoluteDelta2025(pair, scheme.isDark) * (IF amRoleA THEN 1 ELSE -1))

\* part_001 2126-2144
Solo2025(scheme, T, color, bgTone, desiredRatio) ==
  WithSecondBackground(scheme, T, color,
    Bucket2025(color, ContrastTone2025(scheme, bgTone, desiredRatio, color.tone)),
    bgTone, desiredRatio)

getTone2025(scheme, T, key) ==
  IF T[key].toneDeltaPair # <<>>
    THEN TonePair2025(scheme, T, key).selfTone
  ELSE IF T[key].background = <<>> \/ T[key].contrastCurve = <<>>
    THEN T[key].tone
  ELSE Solo2025(scheme, T, T[key], getTone(scheme, T, T[key].background[1]),
                ContrastCurveGet(T[key].contrastCurve[1], scheme.contrastLevel))

\* getSpec$1(scheme.specVersion).getTone(scheme, color)
getTone(scheme, T, key) ==
  IF scheme.specVersion = "2025"
    THEN getTone2025(scheme, T, key)
    ELSE getTone2021(scheme, T, key)

(***************************************************************************)
(* The state                                                               *)
(*   scheme, roles   the DynamicScheme and the role table tones are        *)
(*                   resolved against                                      *)
(*   asked, toneOut  the role of the last getTone call and what it         *)
(*                   returned ("none", -1 before the first call)           *)
(*   hctCache        DynamicColor.hctCache: scheme identity -> Hct         *)
(*   paletteCache    TonalPalette.cache of the color's palette: tone ->    *)
(*                   ARGB                                                  *)
(*   cacheCall       the last getHct / getArgb / clearCache call and what  *)
(*                   it returned                                           *)
(*   solver          the activation of HctSolver.solveToInt: arguments,    *)
(*                   position, locals and return value                     *)
(*   hct, hctCall    one Hct object, and the last call made on it          *)
(*   schemeBuild     the last "new DynamicScheme(...)" and its outcome     *)
(*   made            the DynamicColor objects constructed so far           *)
(*   colorBuild      the last DynamicColor construction or extension and   *)
(*                   its outcome                                           *)
(*   call, returned  the last call of one of the library's other functions *)
(*                   or getters: its name and arguments, and what it       *)
(*                   returned or threw (<<>> while it has not been made)   *)
(* An ARGB integer is kept as its four bytes <<alpha, red, green, blue>>.  *)
(***************************************************************************)
VARIABLES scheme, roles, asked, toneOut, hctCache, paletteCache, cacheCall, solver, hct, hctCall, schemeBuild, made, colorBuild, call, returned

toneVars == <<scheme, roles, asked, toneOut>>
cacheVars == <<hctCache, paletteCache, cacheCall>>
hctVars == <<hct, hctCall>>
buildVars == <<schemeBuild, made, colorBuild>>
callVars == <<call, returned>>
objectVars == <<toneVars, cacheVars, solver, hctVars, buildVars>>
vars == <<objectVars, callVars>>

\* the integer 0, which findResultByJ returns for "no answer"
ZeroArgb == <<0, 0, 0, 0>>

\* Each specification below exercises one part of the library and leaves the
\* objects of the other parts as they are after module load: nothing resolved,
\* nothing cached, nothing constructed.
IdleTone ==
  /\ scheme = [isDark |-> FALSE, contrastLevel |-> 0, specVersion |-> "2021"]
  /\ roles = <<>>
  /\ asked = "none"
  /\ toneOut = -1

IdleCache ==
  /\ hctCache = <<>>
  /\ paletteCache = <<>>
  /\ cacheCall = [op |-> "none", scheme |-> 0, fromCache |-> FALSE, answer |-> [argb |-> ZeroArgb, internalHue |-> 0, internalChroma |-> 0, internalTone |-> 0]]

IdleSolver ==
  solver = [pc |-> "ready", hueDegrees |-> 0, chroma |-> 0, lstar |-> 0, iterationRound |-> 0, exactAnswer |-> <<>>, bisected |-> FALSE, result |-> ZeroArgb]

IdleHct ==
  /\ hct = [argb |-> ZeroArgb, internalHue |-> 0, internalChroma |-> 0, internalTone |-> 0]
  /\ hctCall = [op |-> "none", argb |-> ZeroArgb]

IdleCall ==
  /\ call = <<>>
  /\ returned = <<>>

IdleBuild ==
  /\ schemeBuild = [op |-> "none", variant |-> "", specVersion |-> "", supplied |-> {}, threw |-> <<>>, delegate |-> "none", palettes |-> <<>>]
  /\ made = {}
  /\ colorBuild = [op |-> "none", args |-> <<>>, threw |-> <<>>]

IdleObjects == IdleTone /\ IdleCache /\ IdleSolver /\ IdleHct /\ IdleBuild

ToneGrid == {0, 400, 550, 700, 1000}
PartnerToneGrid == {200, 550, 900}
ContrastLevels == {-100, 0, 100}
\* the polarities and deltas of the 2021 tables and of the 2025 tables
TonePolarity2021 == {"nearer", "farther", "lighter", "darker"}
TonePolarity2025 == {"lighter", "darker", "relative_lighter", "relative_darker"}
DeltaGrid2021 == {-50, 0, 100, 400}
DeltaGrid2025 == {50, 150}
DeltaConstraint == {"exact", "nearer", "farther"}

\* new ToneDeltaPair(roleA, roleB, delta, polarity, stayTogether, constraint)
ToneDeltaPair(roleA, roleB, delta, polarity, stayTogether, constraint) ==
  [roleA |-> roleA, roleB |-> roleB, delta |-> delta, polarity |-> polarity,
   stayTogether |-> stayTogether, constraint |-> constraint]

\* new DynamicColor(...), its functions taken at the scheme at hand
DynamicColor(name, tone, isBackground, background, secondBackground, contrastCurve, toneDeltaPair) ==
  [name |-> name, tone |-> tone, isBackground |-> isBackground,
   background |-> background, secondBackground |-> secondBackground,
   contrastCurve |-> contrastCurve, toneDeltaPair |-> toneDeltaPair]

(***************************************************************************)
(* A role table in the shape of the tables of color_spec: two surfaces     *)
(* without background, the two roles "a" and "b" of a tone delta pair, a   *)
(* role "solo" on a surface, a role "dim" whose name ends in _fixed_dim    *)
(* and a role "duo" on two surfaces.  In the 2021 table both roles of a    *)
(* pair carry it (primaryContainer and primary, part_001 2870-2905); in    *)
(* the 2025 table one role does (part_001 3560-3625), and a role may have  *)
(* a background while its contrast curve is undefined for the scheme       *)
(* (primaryContainer, part_001 3594-3611).                                 *)
(***************************************************************************)
RoleTable(s, toneA, toneB, pair, isBackground, hasBackground, hasCurve) ==
  LET bgs == IF hasBackground THEN <<"bg">> ELSE <<>>
      curveA == IF hasBackground /\ hasCurve
                  THEN <<ContrastCurve(150, 150, 300, 450)>> ELSE <<>>
      curveB == IF hasBackground /\ hasCurve
                  THEN <<ContrastCurve(300, 450, 700, 700)>> ELSE <<>>
  IN [k \in {"bg", "bg2", "a", "b", "solo", "dim", "duo"} |->
       CASE k = "bg" ->
              DynamicColor(<<"surface">>, IF s.isDark THEN 60 ELSE 980,
                           TRUE, <<>>, <<>>, <<>>, <<>>)
         [] k = "bg2" ->
              DynamicColor(<<"surface", "container", "highest">>,
                           IF s.isDark THEN 220 ELSE 900,
                           TRUE, <<>>, <<>>, <<>>, <<>>)
         [] k = "a" ->
              DynamicColor(<<"primary", "container">>, toneA, isBackground,
                           bgs, <<>>, curveA, <<pair>>)
         [] k = "b" ->
              DynamicColor(<<"primary">>, toneB, isBackground, bgs, <<>>, curveB,
                           IF s.specVersion = "2021" THEN <<pair>> ELSE <<>>)
         [] k = "solo" ->
              DynamicColor(<<"secondary", "container">>, toneA, isBackground,
                           bgs, <<>>, curveA, <<>>)
         [] k = "dim" ->
              DynamicColor(<<"primary", "fixed", "dim">>, toneB, TRUE,
                           <<"bg">>, <<>>, <<ContrastCurve(150, 150, 300, 450)>>, <<>>)
         [] k = "duo" ->
              DynamicColor(<<"outline">>, toneB, isBackground,
                           <<"bg">>, <<"bg2">>,
                           <<ContrastCurve(300, 450, 700, 700)>>, <<>>)]

InitTone(specVersion, polarities, deltas, constraints) ==
  /\ \E isDark \in BOOLEAN, contrastLevel \in ContrastLevels :
       scheme = [isDark |-> isDark, contrastLevel |-> contrastLevel,
                 specVersion |-> specVersion]
  /\ \E toneA \in ToneGrid, toneB \in PartnerToneGrid, delta \in deltas,
        polarity \in polarities, stayTogether \in BOOLEAN,
        constraint \in constraints,
        isBackground \in BOOLEAN, hasBackground \in BOOLEAN, hasCurve \in BOOLEAN :
       /\ hasCurve \/ (hasBackground /\ specVersion = "2025")
       /\ stayTogether \/ specVersion = "2021"
       /\ roles = RoleTable(scheme, toneA, toneB,
                    ToneDeltaPair("a", "b", delta, polarity, stayTogether, constraint),
                    isBackground, hasBackground, hasCurve)
  /\ asked = "none"
  /\ toneOut = -1
  /\ IdleCache /\ IdleSolver /\ IdleHct /\ IdleBuild /\ IdleCall

\* DynamicColor.getTone(scheme) on the role stored under key
GetToneCall(key) ==
  /\ asked' = key
  /\ toneOut' = getTone(scheme, roles, key)
  /\ UNCHANGED <<scheme, roles, cacheVars, solver, hctVars, buildVars, callVars>>

NextTone == \E key \in DOMAIN roles : GetToneCall(key)

\* the 2021 tables leave the constraint at its default
InitTone2021 == InitTone("2021", TonePolarity2021, DeltaGrid2021, {"exact"})
SpecTone2021 == InitTone2021 /\ [][NextTone]_vars

InitTone2025 == InitTone("2025", TonePolarity2025, DeltaGrid2025, DeltaConstraint)
SpecTone2025 == InitTone2025 /\ [][NextTone]_vars

(***************************************************************************)
(* Properties of tone resolution                                           *)
(***************************************************************************)
InMiddleBand(tone) == 490 < tone /\ tone < 650
InAwkwardZone(tone) == 500 <= tone /\ tone < 600

\* the role asked last is a background role that is not a _fixed_dim one
AskedBackgroundRole ==
  /\ asked # "none"
  /\ roles[asked].isBackground
  /\ ~EndsWithFixedDim(roles[asked].name)

\* the 2025 delegate reaches its bucketing step for the color and returns
\* what the step gives
ReachesBucket2025(color) ==
  \/ color.toneDeltaPair # <<>>
  \/ /\ color.background # <<>>
     /\ color.contrastCurve # <<>>
     /\ color.secondBackground = <<>>

\* C1, as amended: under the 2025 delegate the tone returned for a
\* background role whose name does not end in _fixed_dim is in [0,49] or in
\* [65,100] when the role has a tone delta pair, or has a background and a
\* contrast curve for the scheme and no second background.
C1_BucketedBackground ==
  (AskedBackgroundRole /\ ReachesBucket2025(roles[asked]))
    => (0 <= toneOut /\ toneOut <= 1000 /\ ~InMiddleBand(toneOut))

\* the middle of the band was asked for and the bucketing moved it out
C1_Witness ==
  /\ asked = "solo"
  /\ AskedBackgroundRole
  /\ roles["solo"].contrastCurve # <<>>
  /\ InMiddleBand(ContrastTone2025(scheme, getTone(scheme, roles, "bg"),
       ContrastCurveGet(roles["solo"].contrastCurve[1], scheme.contrastLevel),
       roles["solo"].tone))
  /\ toneOut \in {490, 650}

\* C1 as stated: every background role not named _fixed_dim gets a tone
\* outside the middle band.
C1_AsStated ==
  AskedBackgroundRole => ~InMiddleBand(toneOut)

(***************************************************************************)
(* The 2021 pair: the role asked last and its partner                      *)
(***************************************************************************)
AskedPairRole == asked \in {"a", "b"} /\ roles[asked].toneDeltaPair # <<>>
AskedPair == roles[asked].toneDeltaPair[1]
PartnerKey == IF asked = "a" THEN "b" ELSE "a"
ExpansionDir == IF scheme.isDark THEN 1 ELSE -1
\* 60 in a dark scheme, 49 in a light one
ZoneExit == IF scheme.isDark THEN 600 ELSE 490

\* the tones returned for the nearer and for the farther role of the pair
ReturnedNearer ==
  IF TonePair2021(scheme, roles, asked).amNearer
    THEN toneOut ELSE getTone(scheme, roles, PartnerKey)
ReturnedFarther ==
  IF TonePair2021(scheme, roles, asked).amNearer
    THEN getTone(scheme, roles, PartnerKey) ELSE toneOut

\* C2, as amended: under the 2021 delegate, for a pair with delta >= 0, the
\* tone returned for a role of the pair is never in [50,60) and neither is
\* its partner's.  A nearer tone that lands in [50,60) is moved to 60 in a
\* dark scheme and to 49 in a light one.  A farther tone that lands there
\* is moved to 60 / 49 only when the nearer tone is outside the zone and
\* stayTogether is false; otherwise the nearer tone goes to 60 / 49 and the
\* farther tone to at least 60 + delta (dark) or at most 49 - delta (light).
C2_LeavesAwkwardZone ==
  (scheme.specVersion = "2021" /\ AskedPairRole /\ AskedPair.delta >= 0) =>
    LET r == TonePair2021(scheme, roles, asked)
        together == InAwkwardZone(r.nLanded) \/ AskedPair.stayTogether
    IN /\ ~InAwkwardZone(toneOut)
       /\ ~InAwkwardZone(ReturnedNearer) /\ ~InAwkwardZone(ReturnedFarther)
       /\ InAwkwardZone(r.nLanded) => ReturnedNearer = ZoneExit
       /\ (InAwkwardZone(r.fLanded) /\ ~together) =>
            (ReturnedFarther = ZoneExit /\ ReturnedNearer = r.nLanded)
       /\ (InAwkwardZone(r.fLanded) /\ together) =>
            /\ ReturnedNearer = ZoneExit
            /\ (ReturnedFarther - (ZoneExit + AskedPair.delta * ExpansionDir))
                 * ExpansionDir >= 0

\* the farther tone landed in the zone of a stay-together pair and the
\* pair was moved past it
C2_Witness ==
  /\ scheme.specVersion = "2021" /\ AskedPairRole
  /\ AskedPair.delta > 0 /\ AskedPair.stayTogether
  /\ LET r == TonePair2021(scheme, roles, asked)
     IN /\ InAwkwardZone(r.fLanded) /\ ~InAwkwardZone(r.nLanded)
        /\ ~r.amNearer
        /\ toneOut = ZoneExit + AskedPair.delta * ExpansionDir

\* C2 as stated: the returned tone is never in [50,60), a nearer or farther
\* tone that lands there is moved to 60 (dark) or 49 (light), and then
\* neither tone of the pair is in [50,60).
C2_AsStated ==
  (scheme.specVersion = "2021" /\ AskedPairRole) =>
    LET r == TonePair2021(scheme, roles, asked)
    IN /\ ~InAwkwardZone(toneOut)
       /\ InAwkwardZone(r.nLanded) => ReturnedNearer = ZoneExit
       /\ InAwkwardZone(r.fLanded) => ReturnedFarther = ZoneExit
       /\ ~InAwkwardZone(ReturnedNearer) /\ ~InAwkwardZone(ReturnedFarther)

\* C3: under the 2021 delegate, for a pair with 0 <= delta <= 100 whose
\* roles have raw tones in [0,100], the tones returned for the farther and
\* the nearer role are at least delta apart in the expansion direction.
C3_DeltaKept ==
  (/\ scheme.specVersion = "2021" /\ AskedPairRole
   /\ 0 <= AskedPair.delta /\ AskedPair.delta <= 1000
   /\ \A k \in {"a", "b"} : 0 <= roles[k].tone /\ roles[k].tone <= 1000)
    => (ReturnedFarther - ReturnedNearer) * ExpansionDir >= AskedPair.delta

\* the raw tones were closer than delta, the zone correction acted too
C3_Witness ==
  /\ scheme.specVersion = "2021" /\ AskedPairRole
  /\ AskedPair.delta = 100
  /\ roles["a"].background = <<>>
  /\ LET near == aIsNearer2021(AskedPair.polarity, scheme.isDark)
         nRaw == IF near THEN roles["a"].tone ELSE roles["b"].tone
         fRaw == IF near THEN roles["b"].tone ELSE roles["a"].tone
     IN /\ (fRaw - nRaw) * ExpansionDir < 100
        /\ InAwkwardZone(nRaw)
  /\ (ReturnedFarther - ReturnedNearer) * ExpansionDir = 100

(***************************************************************************)
(* The 2025 pair: role "a" carries ToneDeltaPair(a, b, ...)                *)
(***************************************************************************)
AskedRoleA ==
  /\ scheme.specVersion = "2025"
  /\ asked = "a"
  /\ roles["a"].toneDeltaPair # <<>>

\* the polarity asks A to be lighter than B in this scheme
PolarityLighter(polarity) ==
  \/ polarity \in {"lighter", "nearer", "farther"}
  \/ (polarity = "relative_lighter" /\ ~scheme.isDark)
  \/ (polarity = "relative_darker" /\ scheme.isDark)

\* how much lighter (darker, if the polarity asks for darker) than B's
\* resolved tone the returned tone of A is
ReturnedSeparation ==
  LET bTone == getTone(scheme, roles, "b")
  IN IF PolarityLighter(roles["a"].toneDeltaPair[1].polarity)
       THEN toneOut - bTone ELSE bTone - toneOut

HonoursConstraint(pair) ==
  /\ pair.constraint = "exact" => ReturnedSeparation = pair.delta
  /\ pair.constraint = "farther" => ReturnedSeparation >= pair.delta
  /\ pair.constraint = "nearer" =>
       (0 <= ReturnedSeparation /\ ReturnedSeparation <= pair.delta)

\* B's resolved tone moved by delta as the polarity says
ExactTarget(pair) ==
  IF PolarityLighter(pair.polarity)
    THEN getTone(scheme, roles, "b") + pair.delta
    ELSE getTone(scheme, roles, "b") - pair.delta

argbFromRgb(red, green, blue) == <<255, red % 256, green % 256, blue % 256>>

redFromArgb(argb) == argb[2]

greenFromArgb(argb) == argb[3]

blueFromArgb(argb) == argb[4]

\* HctSolver.CRITICAL_PLANES[i] = linearized(i + 0.5), i = 0..254: the linear
\* value at which the rounded sRGB component steps from i to i + 1 (rounded up
\* to the grid).
CRITICAL_PLANES ==
  <<16, 46, 76, 107, 137, 167, 198, 228, 258, 289, 319, 351,
    385, 421, 459, 498, 540, 583, 628, 676, 725, 776, 830, 885,
    943, 1003, 1065, 1129, 1195, 1264, 1334, 1408, 1483, 1560, 1640, 1723,
    1807, 1894, 1984, 2076, 2170, 2267, 2366, 2467, 2572, 2678, 2788, 2899,
    3014, 3131, 3250, 3372, 3497, 3625, 3755, 3888, 4023, 4161, 4302, 4446,
    4593, 4742, 4894, 5049, 5207, 5367, 5531, 5697, 5866, 6038, 6213, 6391,
    6572, 6755, 6942, 7132, 7324, 7520, 7719, 7920, 8125, 8333, 8544, 8758,
    8975, 9195, 9418, 9645, 9874, 10107, 10343, 10582, 10824, 11070, 11318, 11570,
    11826, 12084, 12346, 12611, 12879, 13150, 13425, 13703, 13985, 14270, 14558, 14849,
    15144, 15443, 15744, 16050, 16358, 16670, 16986, 17304, 17627, 17953, 18282, 18615,
    18951, 19291, 19634, 19981, 20332, 20686, 21043, 21405, 21769, 22138, 22510, 22885,
    23265, 23647, 24034, 24424, 24818, 25216, 25617, 26022, 26430, 26843, 27259, 27679,
    28102, 28530, 28961, 29395, 29834, 30277, 30723, 31173, 31627, 32085, 32546, 33011,
    33481, 33954, 34431, 34912, 35397, 35885, 36378, 36875, 37375, 37879, 38388, 38900,
    39416, 39937, 40461, 40989, 41521, 42058, 42598, 43142, 43691, 44243, 44799, 45360,
    45924, 46493, 47066, 47643, 48223, 48809, 49398, 49991, 50588, 51190, 51796, 52406,
    53020, 53638, 54260, 54887, 55518, 56153, 56792, 57435, 58083, 58735, 59391, 60051,
    60716, 61385, 62058, 62736, 63418, 64104, 64794, 65489, 66188, 66891, 67599, 68311,
    69028, 69749, 70474, 71203, 71937, 72676, 73419, 74166, 74917, 75673, 76434, 77199,
    77968, 78742, 79520, 80303, 81090, 81882, 82678, 83478, 84284, 85093, 85907, 86726,
    87549, 88377, 89210, 90046, 90888, 91734, 92585, 93440, 94300, 95164, 96033, 96906,
    97785, 98668, 99555>>

\* delinearized(rgbComponent) = clampInt(0, 255, round(255 * transfer(y / 100))):
\* the transfer function is increasing, so the rounded result is the number of
\* steps at or below y.
delinearized(rgbComponent) ==
  Cardinality({i \in 1..Len(CRITICAL_PLANES) : CRITICAL_PLANES[i] <= rgbComponent})

\* linearized(c) for c = 0..255, rounded down to the grid
LinearizedTable ==
  <<0, 30, 60, 91, 121, 151, 182, 212, 242, 273, 303, 334,
    367, 402, 439, 477, 518, 560, 604, 651, 699, 749, 802, 856,
    913, 972, 1032, 1096, 1161, 1228, 1298, 1370, 1444, 1520, 1599, 1680,
    1764, 1850, 1938, 2028, 2121, 2217, 2315, 2415, 2518, 2624, 2732, 2842,
    2955, 3071, 3189, 3310, 3433, 3560, 3688, 3820, 3954, 4091, 4231, 4373,
    4518, 4666, 4817, 4970, 5126, 5286, 5448, 5612, 5780, 5951, 6124, 6301,
    6480, 6662, 6847, 7036, 7227, 7421, 7618, 7818, 8021, 8228, 8437, 8650,
    8865, 9084, 9305, 9530, 9758, 9989, 10224, 10461, 10702, 10946, 11193, 11443,
    11697, 11953, 12213, 12477, 12743, 13013, 13286, 13563, 13843, 14126, 14412, 14702,
    14995, 15292, 15592, 15896, 16202, 16513, 16826, 17144, 17464, 17788, 18116, 18447,
    18782, 19120, 19461, 19806, 20155, 20507, 20863, 21223, 21586, 21952, 22322, 22696,
    23074, 23455, 23839, 24228, 24620, 25015, 25415, 25818, 26225, 26635, 27049, 27467,
    27889, 28314, 28744, 29177, 29613, 30054, 30498, 30946, 31398, 31854, 32314, 32777,
    33245, 33716, 34191, 34670, 35153, 35640, 36130, 36625, 37123, 37626, 38132, 38642,
    39157, 39675, 40197, 40724, 41254, 41788, 42326, 42869, 43415, 43965, 44520, 45078,
    45641, 46207, 46778, 47353, 47932, 48514, 49102, 49693, 50288, 50888, 51491, 52099,
    52711, 53327, 53947, 54572, 55201, 55834, 56471, 57112, 57758, 58407, 59061, 59720,
    60382, 61049, 61720, 62396, 63075, 63759, 64447, 65140, 65837, 66538, 67244, 67954,
    68668, 69387, 70110, 70837, 71569, 72305, 73046, 73791, 74540, 75294, 76052, 76815,
    77582, 78353, 79129, 79910, 80695, 81484, 82278, 83076, 83879, 84687, 85499, 86315,
    87136, 87962, 88792, 89626, 90466, 91309, 92158, 93011, 93868, 94730, 95597, 96468,
    97344, 98225, 99110, 100000>>

linearized(rgbComponent) == LinearizedTable[rgbComponent + 1]

argbFromLinrgb(linrgb) ==
  argbFromRgb(delinearized(linrgb[1]), delinearized(linrgb[2]), delinearized(linrgb[3]))

GrayArgb(component) == argbFromRgb(component, component, component)

argbFromLstar(lstar) == GrayArgb(delinearized(yFromLstar(lstar)))

\* xyzFromArgb(argb)[1]: the second row of SRGB_TO_XYZ
yFromArgb(argb) ==
  (2126 * linearized(redFromArgb(argb)) + 7152 * linearized(greenFromArgb(argb))
     + 722 * linearized(blueFromArgb(argb))) \div 10000

lstarFromArgb(argb) == lstarFromY(yFromArgb(argb))

(***************************************************************************)
(* hct/cam16.ts: Cam16.fromInt in the default viewing conditions.  Hue     *)
(* (degrees) and chroma are counted in hundredths, rounded down.  The      *)
(* values are the code's, tabulated for the colors the model can produce:  *)
(* the 256 grays and the colors whose channels are 0, 188 or 255.  The     *)
(* alpha byte plays no part.                                               *)
(***************************************************************************)
GrayChromaTable ==
  <<0, 25, 32, 36, 40, 43, 46, 48, 50, 52, 54, 56, 58, 59, 61, 62,
    64, 66, 67, 69, 70, 72, 73, 75, 76, 78, 79, 80, 82, 83, 85, 86,
    87, 89, 90, 91, 93, 94, 95, 97, 98, 99, 100, 102, 103, 104, 105, 107,
    108, 109, 110, 111, 113, 114, 115, 116, 117, 118, 120, 121, 122, 123, 124, 125,
    126, 127, 128, 130, 131, 132, 133, 134, 135, 136, 137, 138, 139, 140, 141, 142,
    143, 144, 145, 147, 148, 149, 150, 151, 152, 153, 154, 155, 156, 157, 158, 158,
    159, 160, 161, 162, 163, 164, 165, 166, 167, 168, 169, 170, 171, 172, 173, 174,
    175, 176, 176, 177, 178, 179, 180, 181, 182, 183, 184, 185, 186, 186, 187, 188,
    189, 190, 191, 192, 193, 193, 194, 195, 196, 197, 198, 199, 200, 200, 201, 202,
    203, 204, 205, 205, 206, 207, 208, 209, 210, 210, 211, 212, 213, 214, 215, 215,
    216, 217, 218, 219, 219, 220, 221, 222, 223, 223, 224, 225, 226, 227, 227, 228,
    229, 230, 231, 231, 232, 233, 234, 234, 235, 236, 237, 237, 238, 239, 240, 241,
    241, 242, 243, 244, 244, 245, 246, 247, 247, 248, 249, 250, 250, 251, 252, 253,
    253, 254, 255, 255, 256, 257, 258, 258, 259, 260, 261, 261, 262, 263, 263, 264,
    265, 266, 266, 267, 268, 268, 269, 270, 271, 271, 272, 273, 273, 274, 275, 275,
    276, 277, 278, 278, 279, 280, 280, 281, 282, 282, 283, 284, 284, 285, 286, 286>>

ChromaticCam16 ==
  <<0, 0, 188>> :> [hue |-> 28282, chroma |-> 7207] @@
  <<0, 0, 255>> :> [hue |-> 28278, chroma |-> 8723] @@
  <<0, 188, 0>> :> [hue |-> 14218, chroma |-> 8992] @@
  <<0, 188, 188>> :> [hue |-> 19655, chroma |-> 4899] @@
  <<0, 188, 255>> :> [hue |-> 23606, chroma |-> 5741] @@
  <<0, 255, 0>> :> [hue |-> 14213, chroma |-> 10841] @@
  <<0, 255, 188>> :> [hue |-> 16785, chroma |-> 6744] @@
  <<0, 255, 255>> :> [hue |-> 19654, chroma |-> 5895] @@
  <<188, 0, 0>> :> [hue |-> 2735, chroma |-> 9359] @@
  <<188, 0, 188>> :> [hue |-> 33459, chroma |-> 8895] @@
  <<188, 0, 255>> :> [hue |-> 32021, chroma |-> 9662] @@
  <<188, 188, 0>> :> [hue |-> 11104, chroma |-> 6263] @@
  <<188, 188, 255>> :> [hue |-> 28544, chroma |-> 3728] @@
  <<188, 255, 0>> :> [hue |-> 12710, chroma |-> 8700] @@
  <<188, 255, 188>> :> [hue |-> 14876, chroma |-> 4148] @@
  <<188, 255, 255>> :> [hue |-> 19757, chroma |-> 3041] @@
  <<255, 0, 0>> :> [hue |-> 2740, chroma |-> 11335] @@
  <<255, 0, 188>> :> [hue |-> 34835, chroma |-> 10326] @@
  <<255, 0, 255>> :> [hue |-> 33463, chroma |-> 10740] @@
  <<255, 188, 0>> :> [hue |-> 8370, chroma |-> 6044] @@
  <<255, 188, 188>> :> [hue |-> 1748, chroma |-> 2603] @@
  <<255, 188, 255>> :> [hue |-> 32904, chroma |-> 4194] @@
  <<255, 255, 0>> :> [hue |-> 11105, chroma |-> 7550] @@
  <<255, 255, 188>> :> [hue |-> 11239, chroma |-> 2727]

IsGray(argb) == argb[2] = argb[3] /\ argb[3] = argb[4]

GrayHue(component) == IF component = 0 THEN 0 ELSE 20949

Cam16_fromInt(argb) ==
  IF IsGray(argb)
    THEN [hue |-> GrayHue(argb[2]), chroma |-> GrayChromaTable[argb[2] + 1]]
    ELSE ChromaticCam16[<<argb[2], argb[3], argb[4]>>]

(***************************************************************************)
(* hct/hct_solver.ts                                                       *)
(* findResultByJ and bisectToLimit compute a linear RGB triple by CAM16    *)
(* arithmetic the model does not reproduce: the triple of each pass is     *)
(* drawn from a grid that reaches every branch of the code (a negative     *)
(* channel, Y of 0, a channel above 100.01, a triple whose Y is the        *)
(* requested one), and everything the code then does with the triple is    *)
(* computed.                                                               *)
(***************************************************************************)
sanitizeDegreesDouble(degrees) == degrees % 36000

\* chroma < 0.0001 || lstar < 0.0001 || lstar > 99.9999, on the grid
IsGrayRequest(chroma, lstar) == chroma <= 0 \/ lstar <= 0 \/ lstar >= 1000

\* fnj = kR * linrgb[0] + kG * linrgb[1] + kB * linrgb[2] (Y_FROM_LINRGB)
fnj(linrgb) == (2126 * linrgb[1] + 7152 * linrgb[2] + 722 * linrgb[3]) \div 10000

AnyChannelBelow(linrgb, limit) ==
  linrgb[1] < limit \/ linrgb[2] < limit \/ linrgb[3] < limit

AnyChannelAbove(linrgb, limit) ==
  linrgb[1] > limit \/ linrgb[2] > limit \/ linrgb[3] > limit

\* One pass of the loop of findResultByJ on the triple the pass computed:
\* "fail" is "return 0", "found" is "return argbFromLinrgb(linrgb)", "again"
\* is the Newton step on j and the next pass.
RoundOutcome(iterationRound, linrgb, y) ==
  IF AnyChannelBelow(linrgb, 0) THEN "fail"
  ELSE IF fnj(linrgb) <= 0 THEN "fail"
  ELSE IF iterationRound = 4 \/ Abs(fnj(linrgb) - y) < 2
    THEN IF AnyChannelAbove(linrgb, 100010) THEN "fail" ELSE "found"
  ELSE "again"

\* solveToInt: "if (exactAnswer !== 0) return exactAnswer"
ExactAnswerFound_Always(exactAnswer) == TRUE

ExactAnswerFound(exactAnswer) == exactAnswer # ZeroArgb

LinrgbChannels == {-1000, 0, 50000, 100000, 100020}

GamutChannels == {0, 50000, 100000}

\* the triples a pass of findResultByJ may compute for the requested Y
RoundLinrgb(y) ==
  {<<r, g, b>> : r \in LinrgbChannels, g \in LinrgbChannels, b \in LinrgbChannels}
    \cup {<<y, y, y>>}

\* bisectToLimit returns a point of the RGB cube
BisectLinrgb ==
  {<<r, g, b>> : r \in GamutChannels, g \in GamutChannels, b \in GamutChannels}

\* What solveToInt(hueDegrees, chroma, lstar) can return: the gray of lstar
\* when the request is short-circuited, otherwise a color of the cube.
GamutArgbs == {argbFromLinrgb(linrgb) : linrgb \in BisectLinrgb}

SolveOutcomes(hueDegrees, chroma, lstar) ==
  IF IsGrayRequest(chroma, lstar)
    THEN {argbFromLstar(lstar)}
    ELSE {argbFromLstar(lstar)} \cup GamutArgbs

HueInputs == {-9000, 2741, 40000}
ChromaInputs == {0, 4800, 20000}
LstarInputs == {-100, 0, 500, 900, 1000, 1100}

SolverFrame(pc, hueDegrees, chroma, lstar, iterationRound, exactAnswer, bisected, result) ==
  [pc |-> pc, hueDegrees |-> hueDegrees, chroma |-> chroma, lstar |-> lstar, iterationRound |-> iterationRound, exactAnswer |-> exactAnswer, bisected |-> bisected, result |-> result]

\* solveToInt up to the call of findResultByJ
SolveToInt(hueDegrees, chroma, lstar) ==
  /\ solver.pc \in {"ready", "returned"}
  /\ solver' = IF IsGrayRequest(chroma, lstar)
                 THEN SolverFrame("returned", hueDegrees, chroma, lstar, 0, <<>>, FALSE, argbFromLstar(lstar))
                 ELSE SolverFrame("findResultByJ", sanitizeDegreesDouble(hueDegrees), chroma, lstar, 0, <<>>, FALSE, ZeroArgb)
  /\ UNCHANGED <<toneVars, cacheVars, hctVars, buildVars, callVars>>

AfterRound(frame, outcome, linrgb) ==
  IF outcome = "found"
    THEN [frame EXCEPT !.pc = "exactAnswer", !.exactAnswer = <<argbFromLinrgb(linrgb)>>]
  ELSE IF outcome = "fail" \/ frame.iterationRound >= 4
    THEN [frame EXCEPT !.pc = "exactAnswer", !.exactAnswer = <<ZeroArgb>>]
  ELSE [frame EXCEPT !.iterationRound = frame.iterationRound + 1]

\* one pass of the loop of findResultByJ
FindResultByJRound(linrgb) ==
  /\ solver.pc = "findResultByJ"
  /\ solver' = AfterRound(solver, RoundOutcome(solver.iterationRound, linrgb, yFromLstar(solver.lstar)), linrgb)
  /\ UNCHANGED <<toneVars, cacheVars, hctVars, buildVars, callVars>>

\* solveToInt from the return of findResultByJ to its own return
SolveToIntReturn ==
  /\ solver.pc = "exactAnswer"
  /\ IF ExactAnswerFound(solver.exactAnswer[1])
       THEN solver' = [solver EXCEPT !.pc = "returned", !.result = solver.exactAnswer[1]]
       ELSE \E linrgb \in BisectLinrgb :
              solver' = [solver EXCEPT !.pc = "returned", !.bisected = TRUE, !.result = argbFromLinrgb(linrgb)]
  /\ UNCHANGED <<toneVars, cacheVars, hctVars, buildVars, callVars>>

InitSolver == IdleTone /\ IdleCache /\ IdleSolver /\ IdleHct /\ IdleBuild /\ IdleCall

NextSolver ==
  \/ \E hueDegrees \in HueInputs, chroma \in ChromaInputs, lstar \in LstarInputs : SolveToInt(hueDegrees, chroma, lstar)
  \/ \E linrgb \in RoundLinrgb(yFromLstar(solver.lstar)) : FindResultByJRound(linrgb)
  \/ SolveToIntReturn

SpecSolver == InitSolver /\ [][NextSolver]_vars

SolverReturned == solver.pc = "returned"

\* C7: whenever solveToInt has returned, its result is an opaque ARGB (alpha
\* byte 255, so never the failure value 0 of findResultByJ), and bisectToLimit
\* was run exactly when the request was not short-circuited to gray and
\* findResultByJ returned 0.
C7_OpaqueAnswer ==
  SolverReturned =>
    /\ solver.result[1] = 255
    /\ solver.result # ZeroArgb
    /\ solver.result \in SolveOutcomes(solver.hueDegrees, solver.chroma, solver.lstar)
    /\ solver.bisected <=> (~IsGrayRequest(solver.chroma, solver.lstar) /\ solver.exactAnswer = <<ZeroArgb>>)

\* findResultByJ failed on a chromatic request and bisectToLimit supplied the answer
C7_Witness ==
  /\ SolverReturned
  /\ ~IsGrayRequest(solver.chroma, solver.lstar)
  /\ solver.exactAnswer = <<ZeroArgb>>
  /\ solver.bisected
  /\ solver.result[1] = 255

(***************************************************************************)
(* hct/hct.ts: an Hct object is its ARGB and the three values derived      *)
(* from it                                                                 *)
(***************************************************************************)
HctState(argb, cam, tone) ==
  [argb |-> argb, internalHue |-> cam.hue, internalChroma |-> cam.chroma, internalTone |-> tone]

\* new Hct(argb)
Hct_new(argb) == HctState(argb, Cam16_fromInt(argb), lstarFromArgb(argb))

setInternalState_HueKept(argb) ==
  HctState(argb, [hue |-> 0, chroma |-> Cam16_fromInt(argb).chroma], lstarFromArgb(argb))

setInternalState(argb) == HctState(argb, Cam16_fromInt(argb), lstarFromArgb(argb))

(***************************************************************************)
(* palettes/tonal_palette.ts and the cache of DynamicColor                 *)
(* The color under observation is the role "duo" of the role table; its    *)
(* palette is a neutral palette (chroma 0, as in a monochrome scheme)      *)
(* that all schemes share, so every solveToInt on its behalf is            *)
(* short-circuited to one gray and has one outcome.  The hue of the        *)
(* palette is not yellow (Hct.isYellow: 105 <= hue < 125), so              *)
(* TonalPalette.tone never averages tones 98 and 100.                      *)
(***************************************************************************)
NumSchemes == 6

SchemeIds == 1..NumSchemes

\* the DynamicScheme object of each identity
SchemeOf(id) ==
  [isDark |-> id % 2 = 0, contrastLevel |-> ((id % 3) - 1) * 100, specVersion |-> IF id % 4 < 2 THEN "2021" ELSE "2025"]

RolesOf(id) ==
  RoleTable(SchemeOf(id), 400, 550, ToneDeltaPair("a", "b", 100, "nearer", FALSE, "exact"), FALSE, TRUE, TRUE)

CachedRole == "duo"

NeutralPalette == [hue |-> 28278, chroma |-> 0]

\* Hct.from(hue, chroma, tone).toInt()
Hct_from_toInt(hue, chroma, tone) ==
  CHOOSE argb \in SolveOutcomes(hue, chroma, tone) : TRUE

\* TonalPalette.tone(tone): the ARGB it returns, and the cache it leaves
TonalPalette_tone(cache, palette, tone) ==
  IF tone \in DOMAIN cache THEN cache[tone]
  ELSE Hct_from_toInt(palette.hue, palette.chroma, tone)

TonalPalette_cacheAfter(cache, palette, tone) ==
  IF tone \in DOMAIN cache THEN cache
  ELSE cache @@ (tone :> Hct_from_toInt(palette.hue, palette.chroma, tone))

\* TonalPalette.getHct(tone)
TonalPalette_getHct(cache, palette, tone) == Hct_new(TonalPalette_tone(cache, palette, tone))

\* ColorCalculationDelegateImpl2021.getHct and ...2025.getHct
getHct2021(cache, id) ==
  TonalPalette_getHct(cache, NeutralPalette, getTone(SchemeOf(id), RolesOf(id), CachedRole))

getHct2025(id) ==
  Hct_new(Hct_from_toInt(NeutralPalette.hue, NeutralPalette.chroma, getTone(SchemeOf(id), RolesOf(id), CachedRole)))

\* getSpec(scheme.specVersion).getHct(scheme, this)
FreshHct(cache, id) ==
  IF SchemeOf(id).specVersion = "2025" THEN getHct2025(id) ELSE getHct2021(cache, id)

PaletteCacheAfterFresh(cache, id) ==
  IF SchemeOf(id).specVersion = "2025" THEN cache
  ELSE TonalPalette_cacheAfter(cache, NeutralPalette, getTone(SchemeOf(id), RolesOf(id), CachedRole))

\* this.hctCache.get(scheme)
CachedAnswer_AnyEntry(cache, id) == cache[CHOOSE k \in DOMAIN cache : TRUE]

CachedAnswer(cache, id) == cache[id]

\* if (this.hctCache.size > 4) this.hctCache.clear()
ShouldClear_Never(size) == FALSE

ShouldClear(size) == size > 4

\* ... then this.hctCache.set(scheme, answer)
InsertAnswer(cache, id, answer) ==
  [k \in (IF ShouldClear(Cardinality(DOMAIN cache)) THEN {} ELSE DOMAIN cache) \cup {id} |->
     IF k = id THEN answer ELSE cache[k]]

CacheCall(op, id, fromCache, answer) ==
  [op |-> op, scheme |-> id, fromCache |-> fromCache, answer |-> answer]

\* DynamicColor.getHct(scheme); getArgb(scheme) is getHct(scheme).toInt()
GetHctCall(op, id) ==
  IF id \in DOMAIN hctCache
    THEN /\ cacheCall' = CacheCall(op, id, TRUE, CachedAnswer(hctCache, id))
         /\ UNCHANGED <<hctCache, paletteCache>>
    ELSE /\ cacheCall' = CacheCall(op, id, FALSE, FreshHct(paletteCache, id))
         /\ hctCache' = InsertAnswer(hctCache, id, FreshHct(paletteCache, id))
         /\ paletteCache' = PaletteCacheAfterFresh(paletteCache, id)

GetHct(id) ==
  /\ GetHctCall("getHct", id)
  /\ UNCHANGED <<toneVars, solver, hctVars, buildVars, callVars>>

GetArgb(id) ==
  /\ GetHctCall("getArgb", id)
  /\ UNCHANGED <<toneVars, solver, hctVars, buildVars, callVars>>

\* DynamicColor.clearCache()
ClearCache ==
  /\ hctCache' = <<>>
  /\ cacheCall' = CacheCall("clearCache", 0, FALSE, Hct_new(ZeroArgb))
  /\ UNCHANGED <<paletteCache, toneVars, solver, hctVars, buildVars, callVars>>

InitCache ==
  /\ IdleTone /\ IdleSolver /\ IdleHct /\ IdleBuild /\ IdleCall
  /\ hctCache = <<>>
  /\ paletteCache = <<>>
  /\ cacheCall = CacheCall("none", 0, FALSE, Hct_new(ZeroArgb))

NextCache ==
  \/ \E id \in SchemeIds : GetHct(id)
  \/ \E id \in SchemeIds : GetArgb(id)
  \/ ClearCache

SpecCache == InitCache /\ [][NextCache]_vars

CacheSize == Cardinality(DOMAIN hctCache)

\* a getHct / getArgb call that missed the cache has just filled it
MissedCall == cacheCall.op \in {"getHct", "getArgb"} /\ ~cacheCall.fromCache

\* C5 (as amended): the Hct cache of a DynamicColor never holds more than 5
\* entries: a miss that finds more than 4 entries (that is, 5) clears the
\* whole cache before it inserts, and leaves the new entry alone in it; a
\* miss that finds 4 entries or fewer clears nothing.
C5_CacheBounded ==
  /\ [](CacheSize <= 5)
  /\ [][(MissedCall' /\ CacheSize = 5 /\ cacheCall'.scheme \notin DOMAIN hctCache) => DOMAIN hctCache' = {cacheCall'.scheme}]_vars
  /\ [][(MissedCall' /\ CacheSize <= 4 /\ cacheCall'.scheme \notin DOMAIN hctCache) => DOMAIN hctCache' = DOMAIN hctCache \cup {cacheCall'.scheme}]_vars

\* the cache holds five entries, one more than the stated capacity
C5_Witness == CacheSize = 5 /\ MissedCall

\* C5 as stated: the cache never holds more than 4 entries
C5_AsStated == CacheSize <= 4

\* C6: getArgb (and getHct) for a scheme returns what a fresh computation for
\* that scheme gives, whether it was served from the cache or not and
\* whatever calls for other schemes, wholesale clears and clearCache calls
\* came before; every entry of the cache, and every entry of the palette's
\* tone cache, is the freshly computed value of its key.  The fresh value
\* depends on the scheme alone, so every call for a scheme returns the same
\* ARGB.
C6_CacheFaithful ==
  /\ cacheCall.op \in {"getHct", "getArgb"} => cacheCall.answer = FreshHct(<<>>, cacheCall.scheme)
  /\ \A id \in DOMAIN hctCache : hctCache[id] = FreshHct(<<>>, id)
  /\ \A tone \in DOMAIN paletteCache : paletteCache[tone] = Hct_from_toInt(NeutralPalette.hue, NeutralPalette.chroma, tone)

\* getArgb answered from a cache that holds entries of other schemes with
\* other colors
C6_Witness ==
  /\ cacheCall.op = "getArgb"
  /\ cacheCall.fromCache
  /\ \E id \in DOMAIN hctCache : hctCache[id].argb # cacheCall.answer.argb

(***************************************************************************)
(* One Hct object: construction and the three setters.  The color the      *)
(* solver returns for a chromatic request is any color of SolveOutcomes.   *)
(***************************************************************************)
ArgbInputs ==
  {ZeroArgb, <<255, 255, 0, 0>>, <<128, 0, 188, 255>>, <<255, 100, 100, 100>>, <<255, 255, 255, 255>>}

HctHueInputs == {2741, 28278}
HctChromaInputs == {0, 4800}
HctToneInputs == {0, 500, 900}

HctCall(op, argb) == [op |-> op, argb |-> argb]

\* Hct.fromInt(argb)
HctFromInt(argb) ==
  /\ hct' = Hct_new(argb)
  /\ hctCall' = HctCall("fromInt", argb)
  /\ UNCHANGED <<toneVars, cacheVars, solver, buildVars, callVars>>

\* Hct.from(hue, chroma, tone)
HctFrom(hue, chroma, tone) ==
  /\ \E argb \in SolveOutcomes(hue, chroma, tone) :
       /\ hct' = Hct_new(argb)
       /\ hctCall' = HctCall("from", argb)
  /\ UNCHANGED <<toneVars, cacheVars, solver, buildVars, callVars>>

\* set hue(newHue)
SetHue(newHue) ==
  /\ hctCall.op # "none"
  /\ \E argb \in SolveOutcomes(newHue, hct.internalChroma, hct.internalTone) :
       /\ hct' = setInternalState(argb)
       /\ hctCall' = HctCall("set hue", argb)
  /\ UNCHANGED <<toneVars, cacheVars, solver, buildVars, callVars>>

\* set chroma(newChroma)
SetChroma(newChroma) ==
  /\ hctCall.op # "none"
  /\ \E argb \in SolveOutcomes(hct.internalHue, newChroma, hct.internalTone) :
       /\ hct' = setInternalState(argb)
       /\ hctCall' = HctCall("set chroma", argb)
  /\ UNCHANGED <<toneVars, cacheVars, solver, buildVars, callVars>>

\* set tone(newTone)
SetTone(newTone) ==
  /\ hctCall.op # "none"
  /\ \E argb \in SolveOutcomes(hct.internalHue, hct.internalChroma, newTone) :
       /\ hct' = setInternalState(argb)
       /\ hctCall' = HctCall("set tone", argb)
  /\ UNCHANGED <<toneVars, cacheVars, solver, buildVars, callVars>>

InitHct == IdleTone /\ IdleCache /\ IdleSolver /\ IdleHct /\ IdleBuild /\ IdleCall

NextHct ==
  \/ \E argb \in ArgbInputs : HctFromInt(argb)
  \/ \E hue \in HctHueInputs, chroma \in HctChromaInputs, tone \in HctToneInputs : HctFrom(hue, chroma, tone)
  \/ \E newHue \in HctHueInputs : SetHue(newHue)
  \/ \E newChroma \in HctChromaInputs : SetChroma(newChroma)
  \/ \E newTone \in HctToneInputs : SetTone(newTone)

SpecHct == InitHct /\ [][NextHct]_vars

\* C8: once an Hct exists, after its construction and after every hue, chroma
\* and tone setter call, its hue and chroma are the CAM16 hue and chroma of
\* toInt() and its tone is the L* of toInt(); and Hct.fromInt(argb).toInt()
\* is argb.
C8_HctDerived ==
  hctCall.op # "none" =>
    /\ hct.internalHue = Cam16_fromInt(hct.argb).hue
    /\ hct.internalChroma = Cam16_fromInt(hct.argb).chroma
    /\ hct.internalTone = lstarFromArgb(hct.argb)
    /\ hctCall.op = "fromInt" => hct.argb = hctCall.argb
    /\ hctCall.op # "fromInt" => hct.argb[1] = 255

\* a setter has re-solved the object to a chromatic color
C8_Witness ==
  /\ hctCall.op \in {"set hue", "set chroma", "set tone"}
  /\ ~IsGray(hct.argb)
  /\ hct.internalHue = Cam16_fromInt(hct.argb).hue

(***************************************************************************)
(* dynamiccolor/dynamic_scheme.ts: the constructor of DynamicScheme and    *)
(* the palette delegates.  A palette is kept as the name of what produced  *)
(* it; a getter's result is the palette (<<>> for undefined) or the        *)
(* message of the Error it throws.                                         *)
(***************************************************************************)
Variant ==
  {"MONOCHROME", "NEUTRAL", "TONAL_SPOT", "VIBRANT", "EXPRESSIVE", "FIDELITY", "CONTENT", "RAINBOW", "FRUIT_SALAD"}

\* the variants the 2025 getters have a case for
Variant2025 == {"NEUTRAL", "TONAL_SPOT", "EXPRESSIVE", "VIBRANT"}

SpecVersion == {"2021", "2025"}

VariantInputs == Variant \cup {"UNLISTED"}

SpecVersionInputs == SpecVersion \cup {"2026"}

PaletteNames == <<"primary", "secondary", "tertiary", "neutral", "neutralVariant", "error">>

Returned(palette) == [threw |-> <<>>, palette |-> palette]

Thrown(message) == [threw |-> <<message>>, palette |-> <<>>]

\* function getSpec(specVersion) of dynamic_scheme.ts
getSpec(specVersion) == IF specVersion = "2025" THEN "spec2025" ELSE "spec2021"

\* DynamicSchemePalettesDelegateImpl2021: the five getters that switch on the
\* variant, and getErrorPalette, which returns undefined
getPalette2021(palette, variant) ==
  IF palette = "error" THEN Returned(<<>>)
  ELSE IF variant \in Variant THEN Returned(<<"2021 formula">>)
  ELSE Thrown("Unsupported variant")

\* DynamicSchemePalettesDelegateImpl2025: every getter has four cases and
\* defaults to the getter of its superclass
getPalette2025(palette, variant) ==
  IF variant \in Variant2025 THEN Returned(<<"2025 formula">>)
  ELSE getPalette2021(palette, variant)

DelegatePalette(delegate, palette, variant) ==
  IF delegate = "spec2025" THEN getPalette2025(palette, variant)
  ELSE getPalette2021(palette, variant)

\* "errorPalette ?? getSpec(...).getErrorPalette(...) ?? fromHueAndChroma(25, 84)"
OrFallback(got, palette) ==
  IF palette = "error" /\ got.threw = <<>> /\ got.palette = <<>>
    THEN Returned(<<"fromHueAndChroma(25, 84)">>)
    ELSE got

\* "xPalette ?? getSpec(specVersion).getXPalette(variant, ...)"
PaletteChoice(supplied, palette, variant, specVersion) ==
  IF palette \in supplied THEN Returned(<<"supplied">>)
  ELSE OrFallback(DelegatePalette(getSpec(specVersion), palette, variant), palette)

PaletteChoices(supplied, variant, specVersion) ==
  [i \in 1..Len(PaletteNames) |-> PaletteChoice(supplied, PaletteNames[i], variant, specVersion)]

\* the first assignment of the constructor that throws ends it
FirstThrown(choices) ==
  IF \A i \in DOMAIN choices : choices[i].threw = <<>> THEN <<>>
  ELSE choices[CHOOSE i \in DOMAIN choices : choices[i].threw # <<>> /\ \A j \in 1..(i - 1) : choices[j].threw = <<>>].threw

BuiltPalettes(choices) ==
  IF FirstThrown(choices) = <<>> THEN [i \in DOMAIN choices |-> choices[i].palette[1]] ELSE <<>>

DelegateUsed(supplied, specVersion) ==
  IF \A i \in DOMAIN PaletteNames : PaletteNames[i] \in supplied THEN "none" ELSE getSpec(specVersion)

SchemeBuild(variant, specVersion, supplied, choices) ==
  [op |-> "new DynamicScheme", variant |-> variant, specVersion |-> specVersion, supplied |-> supplied, threw |-> FirstThrown(choices), delegate |-> DelegateUsed(supplied, specVersion), palettes |-> BuiltPalettes(choices)]

\* new DynamicScheme({variant, specVersion, primaryPalette, ...})
NewDynamicScheme(variant, specVersion, supplied) ==
  /\ schemeBuild' = SchemeBuild(variant, specVersion, supplied, PaletteChoices(supplied, variant, specVersion))
  /\ UNCHANGED <<made, colorBuild, toneVars, cacheVars, solver, hctVars, callVars>>

InitScheme == IdleTone /\ IdleCache /\ IdleSolver /\ IdleHct /\ IdleBuild /\ IdleCall

AllPalettes == {PaletteNames[i] : i \in DOMAIN PaletteNames}

\* the palettes the caller passes in the options
SuppliedInputs ==
  {{}, {"primary"}, {"error"}, {"primary", "secondary", "tertiary"}, AllPalettes \ {"error"}, AllPalettes \ {"neutral", "error"}, AllPalettes \ {"primary"}, AllPalettes}

NextScheme ==
  \E variant \in VariantInputs, specVersion \in SpecVersionInputs, supplied \in SuppliedInputs :
    NewDynamicScheme(variant, specVersion, supplied)

SpecScheme == InitScheme /\ [][NextScheme]_vars

SchemeBuilt == schemeBuild.op = "new DynamicScheme"

\* C9 (as stated): building a DynamicScheme with a variant outside the nine
\* enumerated variants, or with a spec version other than "2021" and "2025",
\* throws an Error: no delegate and no palette is chosen by default.
C9_UnknownRejected ==
  (SchemeBuilt /\ (schemeBuild.variant \notin Variant \/ schemeBuild.specVersion \notin SpecVersion)) =>
    schemeBuild.threw # <<>>

\* spec version "2026" with a listed variant: the scheme is built, with the
\* palettes of the 2021 delegate
C9_Witness ==
  /\ SchemeBuilt
  /\ schemeBuild.specVersion \notin SpecVersion
  /\ schemeBuild.variant \in Variant
  /\ schemeBuild.threw = <<>>
  /\ schemeBuild.delegate = "spec2021"
  /\ schemeBuild.palettes[1] = "2021 formula"

(***************************************************************************)
(* dynamiccolor/dynamic_color.ts: construction and extendSpecVersion.      *)
(* A DynamicColor is kept as its name, its isBackground flag and, for      *)
(* each of background, secondBackground and contrastCurve, whether the     *)
(* function was passed to the constructor.                                 *)
(***************************************************************************)
MaxColors == 2

ColorNames == {"primary", "surface"}

ColorArgs(name, isBackground, background, secondBackground, contrastCurve) ==
  [name |-> name, isBackground |-> isBackground, background |-> background, secondBackground |-> secondBackground, contrastCurve |-> contrastCurve]

\* the three checks that end the constructor; <<>> when it returns
ConstructorError_None(background, secondBackground, contrastCurve) == <<>>

ConstructorError(background, secondBackground, contrastCurve) ==
  IF ~background /\ secondBackground THEN <<"has secondBackground defined, but background is not defined">>
  ELSE IF ~background /\ contrastCurve THEN <<"has contrastCurve defined, but background is not defined">>
  ELSE IF background /\ ~contrastCurve THEN <<"has background defined, but contrastCurve is not defined">>
  ELSE <<>>

validateExtendedColor(originalColor, specVersion, extendedColor) ==
  IF originalColor.name # extendedColor.name THEN <<"Attempting to extend color with color of different name">>
  ELSE IF originalColor.isBackground # extendedColor.isBackground THEN <<"Attempting to extend color as a background/foreground with color as a foreground/background">>
  ELSE <<>>

\* the object extendSpecVersion passes to DynamicColor.fromPalette: every
\* optional function is defined
ExtendedArgs(originalColor) == ColorArgs(originalColor.name, originalColor.isBackground, TRUE, TRUE, TRUE)

ColorBuild(op, args, threw) == [op |-> op, args |-> args, threw |-> threw]

\* the objects that exist after a construction that threw or returned
MadeAfter(threw, color) == IF threw = <<>> THEN made \cup {color} ELSE made

HasRoom(threw, color) == threw # <<>> \/ color \in made \/ Cardinality(made) < MaxColors

Constructed(op, args, color, threw) ==
  /\ HasRoom(threw, color)
  /\ colorBuild' = ColorBuild(op, args, threw)
  /\ made' = MadeAfter(threw, color)

\* new DynamicColor(name, palette, tone, isBackground, chromaMultiplier,
\*                  background, secondBackground, contrastCurve, toneDeltaPair)
NewDynamicColor(color) ==
  /\ Constructed("new DynamicColor", <<color>>, color, ConstructorError(color.background, color.secondBackground, color.contrastCurve))
  /\ UNCHANGED <<schemeBuild, toneVars, cacheVars, solver, hctVars, callVars>>

ExtendError(validation, color) ==
  IF validation # <<>> THEN validation
  ELSE ConstructorError(color.background, color.secondBackground, color.contrastCurve)

\* extendSpecVersion(originalColor, specVersion, extendedColor)
ExtendSpecVersion(originalColor, specVersion, extendedColor) ==
  /\ Constructed("extendSpecVersion", <<originalColor, extendedColor>>, ExtendedArgs(originalColor), ExtendError(validateExtendedColor(originalColor, specVersion, extendedColor), ExtendedArgs(originalColor)))
  /\ UNCHANGED <<schemeBuild, toneVars, cacheVars, solver, hctVars, callVars>>

InitColor == IdleTone /\ IdleCache /\ IdleSolver /\ IdleHct /\ IdleBuild /\ IdleCall

NextColor ==
  \/ \E name \in ColorNames, isBackground \in BOOLEAN, background \in BOOLEAN, secondBackground \in BOOLEAN, contrastCurve \in BOOLEAN :
       NewDynamicColor(ColorArgs(name, isBackground, background, secondBackground, contrastCurve))
  \/ \E originalColor \in made, extendedColor \in made, specVersion \in SpecVersion :
       ExtendSpecVersion(originalColor, specVersion, extendedColor)

SpecColor == InitColor /\ [][NextColor]_vars

InvalidArgs(color) ==
  \/ ~color.background /\ color.secondBackground
  \/ ~color.background /\ color.contrastCurve
  \/ color.background /\ ~color.contrastCurve

\* C10: constructing a DynamicColor throws when secondBackground is given
\* without background, when contrastCurve is given without background, or
\* when background is given without contrastCurve; extendSpecVersion throws
\* when the two colors differ in name or in isBackground; so no DynamicColor
\* object with an invalid definition exists.
C10_InvalidRejected ==
  /\ (colorBuild.op = "new DynamicColor" /\ InvalidArgs(colorBuild.args[1])) => colorBuild.threw # <<>>
  /\ (colorBuild.op = "extendSpecVersion" /\ colorBuild.args[1].name # colorBuild.args[2].name) => colorBuild.threw # <<>>
  /\ (colorBuild.op = "extendSpecVersion" /\ colorBuild.args[1].isBackground # colorBuild.args[2].isBackground) => colorBuild.threw # <<>>
  /\ \A color \in made : ~InvalidArgs(color)

\* extendSpecVersion has thrown on two colors of one name, one a background
\* and one a foreground
C10_Witness ==
  /\ colorBuild.op = "extendSpecVersion"
  /\ colorBuild.args[1].name = colorBuild.args[2].name
  /\ colorBuild.args[1].isBackground # colorBuild.args[2].isBackground
  /\ colorBuild.threw # <<>>

(***************************************************************************)
(* dynamiccolor/color_spec_2021.ts, color_spec_2025.ts,                    *)
(* material_dynamic_colors.ts and the getters of DynamicScheme: the four   *)
(* "dim" roles                                                             *)
(***************************************************************************)
DimRoles == {"primaryDim", "secondaryDim", "tertiaryDim", "errorDim"}

\* getCurve(defaultContrast), ratios in hundredths
\* a curve that falls from its normal to its high anchor
getCurve_Descending(defaultContrast) ==
  ContrastCurve(defaultContrast, defaultContrast, 150, 100)

getCurve(defaultContrast) ==
  CASE defaultContrast = 150 -> ContrastCurve(150, 150, 300, 450)
    [] defaultContrast = 300 -> ContrastCurve(300, 300, 450, 700)
    [] defaultContrast = 450 -> ContrastCurve(450, 450, 700, 1100)
    [] defaultContrast = 600 -> ContrastCurve(600, 600, 700, 1100)
    [] defaultContrast = 700 -> ContrastCurve(700, 700, 1100, 2100)
    [] defaultContrast = 900 -> ContrastCurve(900, 900, 1100, 2100)
    [] defaultContrast = 1100 -> ContrastCurve(1100, 1100, 2100, 2100)
    [] defaultContrast = 2100 -> ContrastCurve(2100, 2100, 2100, 2100)
    [] OTHER -> ContrastCurve(defaultContrast, defaultContrast, 700, 2100)

\* ColorSpecDelegateImpl2021.primaryDim, secondaryDim, tertiaryDim, errorDim:
\* "return void 0"
ColorSpec2021_dim(role) == <<>>

\* ColorSpecDelegateImpl2025 overrides the four with a DynamicColor
ColorSpec2025_dim(role) == <<role>>

\* "static colorSpec = new ColorSpecDelegateImpl2025()": one delegate for
\* every scheme
MaterialDynamicColors_colorSpec == "2025"

\* MaterialDynamicColors.primaryDim() and its three siblings
MaterialDynamicColors_dim(role) ==
  IF MaterialDynamicColors_colorSpec = "2025" THEN ColorSpec2025_dim(role) ELSE ColorSpec2021_dim(role)

\* The roles a dim role is resolved against, as the scheme at hand sees
\* them: "bg" is surfaceContainerHigh, "hs" the highest surface, "a" the dim
\* role (rawTone is what its tone function gives for the scheme's variant
\* and palette) and "b" its partner (primary, secondary, tertiary or error;
\* under a 2025 scheme the partner of a watch scheme, which has no pair).
\* The pair of "b" under a 2021 scheme is left out: resolving "a" never
\* reads it.
DimRoleTable(s, rawTone) ==
  [k \in {"bg", "hs", "a", "b"} |->
     CASE k = "bg" ->
            DynamicColor(<<"surface", "container", "high">>,
                         IF s.specVersion = "2025" THEN 250
                         ELSE IF s.isDark THEN ContrastCurveGet(ContrastCurve(170, 170, 210, 250), s.contrastLevel)
                         ELSE ContrastCurveGet(ContrastCurve(920, 920, 880, 850), s.contrastLevel),
                         TRUE, <<>>, <<>>, <<>>, <<>>)
       [] k = "hs" ->
            DynamicColor(<<"surface", "bright">>,
                         IF s.isDark THEN ContrastCurveGet(ContrastCurve(240, 240, 290, 340), s.contrastLevel)
                         ELSE ContrastCurveGet(ContrastCurve(870, 870, 800, 750), s.contrastLevel),
                         TRUE, <<>>, <<>>, <<>>, <<>>)
       [] k = "a" ->
            DynamicColor(<<"primary", "dim">>, rawTone, TRUE, <<"bg">>, <<>>, <<getCurve(450)>>,
                         <<ToneDeltaPair("a", "b", 50, "darker", TRUE, "farther")>>)
       [] k = "b" ->
            IF s.specVersion = "2025"
              THEN DynamicColor(<<"primary">>, 900, TRUE, <<"bg">>, <<>>, <<getCurve(700)>>, <<>>)
              ELSE DynamicColor(<<"primary">>, IF s.isDark THEN 800 ELSE 400, TRUE, <<"hs">>, <<>>,
                                <<ContrastCurve(300, 450, 700, 700)>>, <<>>)]

ChromaticPalette == [hue |-> 28278, chroma |-> 4800]

DimRawTones == {400, 850}

\* what "get primaryDim()" of DynamicScheme and its three siblings can return
\* or throw: the color of the role table is resolved with getArgb(this)
DimGetterOutcomes(s, role, rawTone) ==
  IF MaterialDynamicColors_dim(role) = <<>>
    THEN {[threw |-> <<"color is undefined prior to 2025 spec.">>, argb |-> <<>>]}
    ELSE {[threw |-> <<>>, argb |-> <<argb>>] :
            argb \in SolveOutcomes(ChromaticPalette.hue, ChromaticPalette.chroma, getTone(s, DimRoleTable(s, rawTone), "a"))}

\* scheme.primaryDim, scheme.secondaryDim, scheme.tertiaryDim, scheme.errorDim
ReadDimGetter(role, rawTone) ==
  /\ call' = [op |-> "get", role |-> role, rawTone |-> rawTone]
  /\ returned' \in DimGetterOutcomes(scheme, role, rawTone)
  /\ UNCHANGED objectVars

InitDim ==
  /\ \E isDark \in BOOLEAN, contrastLevel \in ContrastLevels, specVersion \in SpecVersion :
       scheme = [isDark |-> isDark, contrastLevel |-> contrastLevel, specVersion |-> specVersion]
  /\ roles = <<>> /\ asked = "none" /\ toneOut = -1
  /\ IdleCache /\ IdleSolver /\ IdleHct /\ IdleBuild /\ IdleCall

NextDim == \E role \in DimRoles, rawTone \in DimRawTones : ReadDimGetter(role, rawTone)

SpecDim == InitDim /\ [][NextDim]_vars

DimRead == call # <<>> /\ call.op = "get"

\* C11 (as stated): on a scheme whose specVersion is "2021", reading
\* primaryDim, secondaryDim, tertiaryDim or errorDim throws the error saying
\* the color is undefined prior to the 2025 spec, and returns no ARGB.
C11_DimThrows2021 ==
  (DimRead /\ scheme.specVersion = "2021") => (returned.threw # <<>> /\ returned.argb = <<>>)

\* a dim getter read on a 2021 scheme has returned an opaque ARGB
C11_Witness ==
  /\ DimRead
  /\ scheme.specVersion = "2021"
  /\ returned.threw = <<>>
  /\ returned.argb # <<>>
  /\ returned.argb[1][1] = 255

(***************************************************************************)
(* extendSpecVersion: the functions of the color it returns.  A color is   *)
(* kept as its identity and the set of its functions that are defined;     *)
(* the value color.field(s) is the triple <<identity, field, s>>, and a    *)
(* call records whose function it invoked.                                 *)
(***************************************************************************)
RequiredFields == {"palette", "tone"}

OptionalFields == {"chromaMultiplier", "background", "secondBackground", "contrastCurve", "toneDeltaPair"}

ColorFunctions(id, defined) == [id |-> id, defined |-> defined \cup RequiredFields]

\* the sets of optional functions a constructed color can have
ValidDefined ==
  {d \in SUBSET OptionalFields :
     ConstructorError("background" \in d, "secondBackground" \in d, "contrastCurve" \in d) = <<>>}

Invoked(color, field, specVersion) ==
  [value |-> <<color.id, field, specVersion>>, used |-> {color.id}]

\* "chromaMultiplier !== void 0 ? chromaMultiplier(s) : 1", and for the other
\* optional functions ": void 0"
NotInvoked(field) ==
  [value |-> IF field = "chromaMultiplier" THEN <<1>> ELSE <<>>, used |-> {}]

\* "s.specVersion === specVersion ? extendedColor.f : originlColor.f"
SelectedSide_Original(originalColor, specVersion, extendedColor, s) == originalColor

SelectedSide(originalColor, specVersion, extendedColor, s) ==
  IF s = specVersion THEN extendedColor ELSE originalColor

FieldOf(side, field, s) ==
  IF field \in RequiredFields \/ field \in side.defined
    THEN Invoked(side, field, s)
    ELSE NotInvoked(field)

\* extendSpecVersion(originalColor, specVersion, extendedColor).field(s), for
\* a scheme s of the given spec version
ExtendedField(originalColor, specVersion, extendedColor, field, s) ==
  FieldOf(SelectedSide(originalColor, specVersion, extendedColor, s), field, s)

\* evaluate one function of the extended color on a scheme
EvaluateExtended(field, s) ==
  /\ call.op = "extendSpecVersion"
  /\ call' = [call EXCEPT !.field = field, !.s = s]
  /\ returned' = <<ExtendedField(call.originalColor, call.specVersion, call.extendedColor, field, s)>>
  /\ UNCHANGED objectVars

InitExtend ==
  /\ IdleObjects
  /\ \E d1 \in ValidDefined, d2 \in ValidDefined, specVersion \in SpecVersion :
       call = [op |-> "extendSpecVersion", originalColor |-> ColorFunctions("original", d1), specVersion |-> specVersion, extendedColor |-> ColorFunctions("extended", d2), field |-> "", s |-> ""]
  /\ returned = <<>>

NextExtend ==
  \E field \in RequiredFields \cup OptionalFields, s \in SpecVersion : EvaluateExtended(field, s)

SpecExtend == InitExtend /\ [][NextExtend]_vars

Evaluated == call # <<>> /\ call.op = "extendSpecVersion" /\ returned # <<>>

CallSide == IF call.s = call.specVersion THEN call.extendedColor ELSE call.originalColor

\* C12: a function of the color extendSpecVersion(original, v, override)
\* returns, on a scheme s, the value of the override's function when
\* s.specVersion = v and of the original's otherwise; when that side does not
\* define the function it returns undefined (1 for chromaMultiplier); and
\* it invokes no function of the other side.
C12_SelectedSide ==
  Evaluated =>
    /\ call.field \in CallSide.defined =>
         returned[1] = [value |-> <<CallSide.id, call.field, call.s>>, used |-> {CallSide.id}]
    /\ call.field \notin CallSide.defined =>
         returned[1] = [value |-> IF call.field = "chromaMultiplier" THEN <<1>> ELSE <<>>, used |-> {}]

\* on a scheme of the extended version the override lacks a function the
\* original defines: the result is undefined and the original is not asked
C12_Witness ==
  /\ Evaluated
  /\ call.s = call.specVersion
  /\ call.field = "toneDeltaPair"
  /\ call.field \in call.originalColor.defined
  /\ call.field \notin call.extendedColor.defined
  /\ returned[1].value = <<>>
  /\ returned[1].used = {}

(***************************************************************************)
(* Contrast.lighter, darker, lighterUnsafe, darkerUnsafe and               *)
(* DynamicColor.foregroundTone called on their own.  Tones are in tenths   *)
(* and ratios in hundredths; the tones include values outside 0..100.      *)
(***************************************************************************)
ContrastTones ==
  {-10, 0, 4, 100, 300, 490, 494, 495, 496, 500, 590, 594, 595, 600, 700, 900, 996, 1000, 1001, 1100}

ContrastRatios == {100, 150, 300, 450, 700, 1100, 2100}

ContrastOps == {"lighter", "darker", "lighterUnsafe", "darkerUnsafe", "foregroundTone"}

ContrastResult(op, tone, ratio) ==
  CASE op = "lighter" -> ContrastLighter(tone, ratio)
    [] op = "darker" -> ContrastDarker(tone, ratio)
    [] op = "lighterUnsafe" -> lighterUnsafe(tone, ratio)
    [] op = "darkerUnsafe" -> darkerUnsafe(tone, ratio)
    [] op = "foregroundTone" -> foregroundTone(tone, ratio)

ContrastCall(op, tone, ratio) ==
  /\ call' = [op |-> op, tone |-> tone, ratio |-> ratio]
  /\ returned' = <<ContrastResult(op, tone, ratio)>>
  /\ UNCHANGED objectVars

Lighter(tone, ratio) == ContrastCall("lighter", tone, ratio)

Darker(tone, ratio) == ContrastCall("darker", tone, ratio)

LighterUnsafe(tone, ratio) == ContrastCall("lighterUnsafe", tone, ratio)

DarkerUnsafe(tone, ratio) == ContrastCall("darkerUnsafe", tone, ratio)

ForegroundTone(bgTone, ratio) == ContrastCall("foregroundTone", bgTone, ratio)

InitContrast == IdleObjects /\ IdleCall

NextContrast ==
  \E tone \in ContrastTones, ratio \in ContrastRatios :
    \/ Lighter(tone, ratio)
    \/ Darker(tone, ratio)
    \/ LighterUnsafe(tone, ratio)
    \/ DarkerUnsafe(tone, ratio)
    \/ ForegroundTone(tone, ratio)

SpecContrast == InitContrast /\ [][NextContrast]_vars

Called(op) == call # <<>> /\ call.op = op /\ returned # <<>>

\* the two candidates fall short of the ratio and their ratios differ by
\* less than 0.1
NegligibleDifference(ratio, lighterRatio, darkerRatio) ==
  /\ lighterRatio < ratio
  /\ darkerRatio < ratio
  /\ Abs(lighterRatio - darkerRatio) < 10

ForegroundAsStated(bgTone, ratio, out, lighterTone, darkerTone, lighterRatio, darkerRatio) ==
  /\ out \in {lighterTone, darkerTone}
  /\ (bgTone + 5) \div 10 < 60 =>
       IF \/ lighterRatio >= ratio
          \/ lighterRatio >= darkerRatio
          \/ NegligibleDifference(ratio, lighterRatio, darkerRatio)
         THEN out = lighterTone
         ELSE out = darkerTone
  /\ (bgTone + 5) \div 10 >= 60 =>
       IF darkerRatio >= ratio \/ darkerRatio >= lighterRatio
         THEN out = darkerTone
         ELSE out = lighterTone

ForegroundOfCandidates(bgTone, ratio, out, lighterTone, darkerTone) ==
  ForegroundAsStated(bgTone, ratio, out, lighterTone, darkerTone,
                     ratioOfTones(lighterTone, bgTone), ratioOfTones(darkerTone, bgTone))

\* C13: foregroundTone(bgTone, ratio) returns lighterUnsafe(bgTone, ratio) or
\* darkerUnsafe(bgTone, ratio).  When round(bgTone) < 60 it is the lighter
\* candidate if that reaches the ratio, or its ratio is at least the darker
\* candidate's, or both fall short and their ratios differ by less than 0.1,
\* and the darker candidate otherwise; when round(bgTone) >= 60 it is the
\* darker candidate if that reaches the ratio or its ratio is at least the
\* lighter candidate's, and the lighter candidate otherwise.
C13_ForegroundChoice ==
  Called("foregroundTone") =>
    ForegroundOfCandidates(call.tone, call.ratio, returned[1],
                           lighterUnsafe(call.tone, call.ratio), darkerUnsafe(call.tone, call.ratio))

\* the lighter candidate is returned on the negligible-difference rule alone
C13_Witness ==
  /\ Called("foregroundTone")
  /\ (call.tone + 5) \div 10 < 60
  /\ ratioOfTones(1000, call.tone) < ratioOfTones(0, call.tone)
  /\ NegligibleDifference(call.ratio, ratioOfTones(1000, call.tone), ratioOfTones(0, call.tone))
  /\ lighterUnsafe(call.tone, call.ratio) = 1000
  /\ darkerUnsafe(call.tone, call.ratio) = 0
  /\ returned[1] = 1000

ContrastCurves2021 ==
  { ContrastCurve(300, 300, 450, 700), ContrastCurve(450, 700, 1100, 2100),
    ContrastCurve(300, 450, 700, 1100), ContrastCurve(150, 300, 450, 700),
    ContrastCurve(100, 100, 300, 450), ContrastCurve(300, 450, 700, 700) }

\* surfaceDim, surfaceBright, surfaceContainerLowest, surfaceContainerLow,
\* surfaceContainer, surfaceContainerHigh, surfaceContainerHighest
ToneCurves2021 ==
  { ContrastCurve(870, 870, 800, 750), ContrastCurve(240, 240, 290, 340),
    ContrastCurve(40, 40, 20, 0),
    ContrastCurve(100, 100, 110, 120), ContrastCurve(960, 960, 960, 950),
    ContrastCurve(120, 120, 160, 200), ContrastCurve(940, 940, 920, 900),
    ContrastCurve(170, 170, 210, 250), ContrastCurve(920, 920, 880, 850),
    ContrastCurve(220, 220, 260, 300), ContrastCurve(900, 900, 840, 800) }

ContrastCurves2025 == {getCurve(d) : d \in {150, 300, 450, 600, 700, 900, 1100}}

ConstructedCurves ==
  {[use |-> "contrastCurve", curve |-> c] : c \in ContrastCurves2021 \cup ContrastCurves2025}
    \cup {[use |-> "tone", curve |-> c] : c \in ToneCurves2021}

CurveLevels == {-100, -75, -50, -25, 0, 25, 50, 75, 100}

\* curve.get(contrastLevel) on one of the constructed curves
CurveGet(made_, contrastLevel) ==
  /\ call' = [op |-> "ContrastCurve.get", use |-> made_.use, curve |-> made_.curve, contrastLevel |-> contrastLevel]
  /\ returned' = <<ContrastCurveGet(made_.curve, contrastLevel)>>
  /\ UNCHANGED objectVars

InitCurve == IdleObjects /\ IdleCall

NextCurve == \E made_ \in ConstructedCurves, contrastLevel \in CurveLevels : CurveGet(made_, contrastLevel)

SpecCurve == InitCurve /\ [][NextCurve]_vars

Ordered(curve) ==
  curve.low <= curve.normal /\ curve.normal <= curve.medium /\ curve.medium <= curve.high

\* the value get returned is at least the value at every lower level
NonDecreasingHere ==
  \A lower \in CurveLevels :
    lower <= call.contrastLevel => ContrastCurveGet(call.curve, lower) <= returned[1]

\* C15 as stated: every ContrastCurve the 2021 and 2025 role tables
\* construct has low <= normal <= medium <= high, so get(1.0) >= get(0.0)
\* and get is non-decreasing in contrastLevel over [-1, 1].
C15_AsStated ==
  Called("ContrastCurve.get") =>
    /\ Ordered(call.curve)
    /\ ContrastCurveGet(call.curve, 100) >= ContrastCurveGet(call.curve, 0)
    /\ NonDecreasingHere

\* C15: every ContrastCurve the 2021 and 2025 role tables give a role as its
\* contrastCurve has low <= normal <= medium <= high, so get(1.0) >= get(0.0)
\* and get is non-decreasing in contrastLevel over [-1, 1].
C15_RatioCurvesOrdered ==
  (Called("ContrastCurve.get") /\ call.use = "contrastCurve") =>
    /\ Ordered(call.curve)
    /\ ContrastCurveGet(call.curve, 100) >= ContrastCurveGet(call.curve, 0)
    /\ NonDecreasingHere

\* a role's contrastCurve read at the highest level gives more than at 0.0
C15_Witness ==
  /\ Called("ContrastCurve.get")
  /\ call.use = "contrastCurve"
  /\ call.contrastLevel = 100
  /\ returned[1] > ContrastCurveGet(call.curve, 0)

(***************************************************************************)
(* The roles of the tables that have no background: background, surface    *)
(* and the surface containers.  MaterialDynamicColors takes each from the  *)
(* 2025 delegate, which is extendSpecVersion(super.role(), "2025",         *)
(* color2025): on a 2021 scheme the tone is the 2021 role's, on a 2025     *)
(* scheme the 2025 role's (here for the phone platform, a neutral palette  *)
(* that is not yellow and a variant other than VIBRANT).                   *)
(***************************************************************************)
SurfaceRoles ==
  {"background", "surface", "surface_dim", "surface_bright", "surface_container_lowest",
   "surface_container_low", "surface_container", "surface_container_high",
   "surface_container_highest"}

\* tone: (s) => ... of the 2021 roles, part_001 2690-2769
SurfaceTone2021(role, isDark, contrastLevel) ==
  CASE role \in {"background", "surface"} -> IF isDark THEN 60 ELSE 980
    [] role = "surface_dim" ->
         IF isDark THEN 60 ELSE ContrastCurveGet(ContrastCurve(870, 870, 800, 750), contrastLevel)
    [] role = "surface_bright" ->
         IF isDark THEN ContrastCurveGet(ContrastCurve(240, 240, 290, 340), contrastLevel) ELSE 980
    [] role = "surface_container_lowest" ->
         IF isDark THEN ContrastCurveGet(ContrastCurve(40, 40, 20, 0), contrastLevel) ELSE 1000
    [] role = "surface_container_low" ->
         IF isDark THEN ContrastCurveGet(ContrastCurve(100, 100, 110, 120), contrastLevel)
                   ELSE ContrastCurveGet(ContrastCurve(960, 960, 960, 950), contrastLevel)
    [] role = "surface_container" ->
         IF isDark THEN ContrastCurveGet(ContrastCurve(120, 120, 160, 200), contrastLevel)
                   ELSE ContrastCurveGet(ContrastCurve(940, 940, 920, 900), contrastLevel)
    [] role = "surface_container_high" ->
         IF isDark THEN ContrastCurveGet(ContrastCurve(170, 170, 210, 250), contrastLevel)
                   ELSE ContrastCurveGet(ContrastCurve(920, 920, 880, 850), contrastLevel)
    [] role = "surface_container_highest" ->
         IF isDark THEN ContrastCurveGet(ContrastCurve(220, 220, 260, 300), contrastLevel)
                   ELSE ContrastCurveGet(ContrastCurve(900, 900, 840, 800), contrastLevel)

\* tone: (s) => ... of the 2025 roles, part_001 3296-3440; the 2025
\* background is a clone of surface() under another name (3965-3968)
SurfaceTone2025(role, isDark, contrastLevel) ==
  CASE role \in {"background", "surface"} -> IF isDark THEN 40 ELSE 980
    [] role = "surface_dim" -> IF isDark THEN 40 ELSE 870
    [] role = "surface_bright" -> IF isDark THEN 180 ELSE 980
    [] role = "surface_container_lowest" -> IF isDark THEN 0 ELSE 1000
    [] role = "surface_container_low" -> IF isDark THEN 60 ELSE 960
    [] role = "surface_container" -> IF isDark THEN 90 ELSE 940
    [] role = "surface_container_high" -> IF isDark THEN 120 ELSE 920
    [] role = "surface_container_highest" -> IF isDark THEN 150 ELSE 900

\* extendSpecVersion(super.role(), SPEC_2025, color2025).tone(s)
SurfaceTone(role, s) ==
  IF s.specVersion = "2025"
    THEN SurfaceTone2025(role, s.isDark, s.contrastLevel)
    ELSE SurfaceTone2021(role, s.isDark, s.contrastLevel)

SurfaceRoleName(role) ==
  CASE role = "background" -> <<"background">>
    [] role = "surface" -> <<"surface">>
    [] role = "surface_dim" -> <<"surface", "dim">>
    [] role = "surface_bright" -> <<"surface", "bright">>
    [] role = "surface_container_lowest" -> <<"surface", "container", "lowest">>
    [] role = "surface_container_low" -> <<"surface", "container", "low">>
    [] role = "surface_container" -> <<"surface", "container">>
    [] role = "surface_container_high" -> <<"surface", "container", "high">>
    [] role = "surface_container_highest" -> <<"surface", "container", "highest">>

SurfaceRoleTable(s) ==
  [role \in SurfaceRoles |->
     DynamicColor(SurfaceRoleName(role), SurfaceTone(role, s), TRUE, <<>>, <<>>, <<>>, <<>>)]

WithContrastLevel(s, contrastLevel) == [s EXCEPT !.contrastLevel = contrastLevel]

SurfaceGetTone(role, s) == getTone(s, SurfaceRoleTable(s), role)

\* role.getTone(scheme) and role.getTone(other), where other is the scheme
\* with another contrast level and is equal to scheme in everything else
GetToneAtTwoLevels(role, otherLevel) ==
  /\ call' = [op |-> "getTone", role |-> role, otherLevel |-> otherLevel]
  /\ returned' = <<[tone |-> SurfaceGetTone(role, scheme),
                    otherTone |-> SurfaceGetTone(role, WithContrastLevel(scheme, otherLevel))]>>
  /\ UNCHANGED objectVars

InitSurface == InitDim

NextSurface ==
  \E role \in SurfaceRoles, otherLevel \in ContrastLevels : GetToneAtTwoLevels(role, otherLevel)

SpecSurface == InitSurface /\ [][NextSurface]_vars

\* C16 (as stated): a DynamicColor that has no background does not change
\* tone when contrast changes: for two schemes that differ only in
\* contrastLevel, getTone of the role returns the same value, under either
\* spec version.
C16_ToneFixedWithoutBackground ==
  (Called("getTone") /\ SurfaceRoleTable(scheme)[call.role].background = <<>>) =>
    returned[1].tone = returned[1].otherTone

\* surface_dim of a light 2021 scheme resolves to tone 87 at contrast level
\* 0.0 and to tone 75 at contrast level 1.0
C16_Witness ==
  /\ Called("getTone")
  /\ call.role = "surface_dim"
  /\ scheme = [isDark |-> FALSE, contrastLevel |-> 0, specVersion |-> "2021"]
  /\ call.otherLevel = 100
  /\ returned[1] = [tone |-> 870, otherTone |-> 750]

(***************************************************************************)
(* KeyColor.create (part_001 2237-2263).  maxChroma(tone), the chroma of   *)
(* Hct.from(hue, 200, tone), is an input of the search: a profile over the *)
(* integer tones that climbs by `slope` per tone to `height` at each of    *)
(* its peaks.  One peak gives a profile that rises and then falls; two     *)
(* peaks give one that does not.  Chromas are in hundredths and tones are  *)
(* integers here.  The search loop is run one iteration per step.          *)
(***************************************************************************)
ChromaProfile(peaks, height, slope) == [peaks |-> peaks, height |-> height, slope |-> slope]

DistanceToPeak(peaks, tone) ==
  CHOOSE d \in {Abs(tone - p) : p \in peaks} : \A p \in peaks : d <= Abs(tone - p)

maxChroma(profile, tone) ==
  profile.height - profile.slope * DistanceToPeak(profile.peaks, tone)

ProfilePeaks == {{0}, {10}, {30}, {49}, {50}, {51}, {70}, {90}, {100}, {20, 80}, {10, 60}, {40, 90}}

ProfileHeights == {3000, 6000}

RequestedChromas == {0, 1500, 2900, 3001, 4500, 6001, 9000}

\* Math.abs(lowerTone - pivotTone) < Math.abs(upperTone - pivotTone)
CloserToPivot_Always(lowerTone, upperTone) == TRUE

CloserToPivot(lowerTone, upperTone) == Abs(lowerTone - 50) < Abs(upperTone - 50)

\* one iteration of the loop body: the next lowerTone and upperTone, or the
\* tone of the Hct the body returns
LoopBody(profile, requestedChroma, lowerTone, upperTone, midTone) ==
  IF maxChroma(profile, midTone) >= requestedChroma - 1
    THEN IF CloserToPivot(lowerTone, upperTone)
           THEN [lowerTone |-> lowerTone, upperTone |-> midTone, tone |-> <<>>]
         ELSE IF lowerTone = midTone
           THEN [lowerTone |-> lowerTone, upperTone |-> upperTone, tone |-> <<lowerTone>>]
         ELSE [lowerTone |-> midTone, upperTone |-> upperTone, tone |-> <<>>]
  ELSE IF maxChroma(profile, midTone) < maxChroma(profile, midTone + 1)
    THEN [lowerTone |-> midTone + 1, upperTone |-> upperTone, tone |-> <<>>]
    ELSE [lowerTone |-> lowerTone, upperTone |-> midTone, tone |-> <<>>]

Searching == call # <<>> /\ call.op = "create" /\ returned = <<>>

\* new KeyColor(hue, requestedChroma).create() is entered
CreateBegin(profile, requestedChroma) ==
  /\ ~Searching
  /\ call' = [op |-> "create", profile |-> profile, requestedChroma |-> requestedChroma, lowerTone |-> 0, upperTone |-> 100]
  /\ returned' = <<>>
  /\ UNCHANGED objectVars

AfterBody(next) ==
  /\ call' = [call EXCEPT !.lowerTone = next.lowerTone, !.upperTone = next.upperTone]
  /\ returned' = next.tone
  /\ UNCHANGED objectVars

\* while (lowerTone < upperTone) { ... }
CreateLoop ==
  /\ Searching
  /\ call.lowerTone < call.upperTone
  /\ AfterBody(LoopBody(call.profile, call.requestedChroma, call.lowerTone, call.upperTone,
                        (call.lowerTone + call.upperTone) \div 2))

\* return Hct.from(this.hue, this.requestedChroma, lowerTone) after the loop
CreateReturn ==
  /\ Searching
  /\ call.lowerTone >= call.upperTone
  /\ returned' = <<call.lowerTone>>
  /\ UNCHANGED <<objectVars, call>>

InitKeyColor == IdleObjects /\ IdleCall

NextKeyColor ==
  \/ \E peaks \in ProfilePeaks, height \in ProfileHeights, requestedChroma \in RequestedChromas :
       CreateBegin(ChromaProfile(peaks, height, 30), requestedChroma)
  \/ CreateLoop
  \/ CreateReturn

SpecKeyColor ==
  InitKeyColor /\ [][NextKeyColor]_vars /\ WF_vars(CreateLoop) /\ WF_vars(CreateReturn)

Created == call # <<>> /\ call.op = "create" /\ returned # <<>>

SinglePeaked(profile) == Cardinality(profile.peaks) = 1

SufficientTones(profile, requestedChroma) ==
  {tone \in 0..100 : maxChroma(profile, tone) >= requestedChroma - 1}

ClosestToPivot(tone, tones) ==
  tone \in tones /\ \A other \in tones : Abs(tone - 50) <= Abs(other - 50)

CreatedAsStated ==
  Created =>
    /\ returned[1] \in 0..100
    /\ (SinglePeaked(call.profile) /\ SufficientTones(call.profile, call.requestedChroma) # {}) =>
         ClosestToPivot(returned[1], SufficientTones(call.profile, call.requestedChroma))

\* C17: KeyColor.create terminates and returns a color at a tone in 0..100;
\* when the maximum chroma over the integer tones 0..100 rises to a single
\* peak and then falls, the tone is the one closest to 50 among the tones
\* whose maximum chroma is at least the requested chroma minus 0.01.
C17_KeyToneClosestToPivot == [](CreatedAsStated) /\ (Searching ~> Created)

\* the search ends below the pivot, on the highest tone that is sufficient
C17_Witness ==
  /\ Created
  /\ SinglePeaked(call.profile)
  /\ returned[1] < 50
  /\ returned[1] + 1 \notin SufficientTones(call.profile, call.requestedChroma)
  /\ returned[1] - 1 \in SufficientTones(call.profile, call.requestedChroma)

(***************************************************************************)
(* HctSolver.sanitizeRadians and HctSolver.areInCyclicOrder (part_001      *)
(* 1093-1095, 1131-1135).  Angles are counted in units of pi / 180, so     *)
(* Math.PI is 180 units and a full turn is 360.                            *)
(***************************************************************************)
PI == 180

\* the % of the source: the remainder has the sign of the dividend
Remainder(dividend, divisor) ==
  IF dividend >= 0 THEN dividend % divisor ELSE -((-dividend) % divisor)

\* the remainder taken of the angle itself
sanitizeRadians_NoOffset(angle) == Remainder(angle, PI * 2)

\* (angle + Math.PI * 8) % (Math.PI * 2)
sanitizeRadians(angle) == Remainder(angle + PI * 8, PI * 2)

\* a linear comparison of the two angles
areInCyclicOrder_Linear(a, b, c) == b < c

areInCyclicOrder(a, b, c) == sanitizeRadians(b - a) < sanitizeRadians(c - a)

\* angles around 0, around -8 pi, of many turns, and of very large magnitude
AngleInputs ==
  {k * 45 : k \in -40..40} \cup {-1441, -1440, -1439, -361, -1, 1, 359, 361, 1439, 1441}
    \cup {-2000000000, -1000000, 1000000, 2000000000}

\* hue angles as Math.atan2 gives them and as degrees of a hue circle
HueAngles == {-179, -90, -1, 0, 1, 10, 90, 180, 359}

SanitizeRadians(angle) ==
  /\ call' = [op |-> "sanitizeRadians", angle |-> angle]
  /\ returned' = <<sanitizeRadians(angle)>>
  /\ UNCHANGED objectVars

AreInCyclicOrder(a, b, c) ==
  /\ call' = [op |-> "areInCyclicOrder", a |-> a, b |-> b, c |-> c]
  /\ returned' = <<areInCyclicOrder(a, b, c)>>
  /\ UNCHANGED objectVars

InitAngle == IdleObjects /\ IdleCall

NextAngle ==
  \/ \E angle \in AngleInputs : SanitizeRadians(angle)
  \/ \E a \in HueAngles, b \in HueAngles, c \in HueAngles : AreInCyclicOrder(a, b, c)

SpecAngle == InitAngle /\ [][NextAngle]_vars

\* out is the angle in [0, 2 pi) that differs from angle by whole turns
CoterminalInTurn(angle, out) ==
  /\ out >= 0
  /\ out < 2 * PI
  /\ (out - angle) % (2 * PI) = 0

\* C18 (as stated): sanitizeRadians maps every angle, negative angles and
\* angles of very large magnitude included, to the coterminal angle in
\* [0, 2 pi): the result is never negative and never 2 pi or more.
C18_AsStated ==
  Called("sanitizeRadians") => CoterminalInTurn(call.angle, returned[1])

\* C18: sanitizeRadians maps every angle of at least -8 pi, negative angles
\* and very large positive angles included, to the coterminal angle in
\* [0, 2 pi): the result is never negative and never 2 pi or more.
C18_FromMinusFourTurns ==
  (Called("sanitizeRadians") /\ call.angle >= -(8 * PI)) =>
    CoterminalInTurn(call.angle, returned[1])

\* a negative angle is brought into [0, 2 pi)
C18_Witness ==
  /\ Called("sanitizeRadians")
  /\ call.angle = -361
  /\ returned[1] = 359

\* the arc from angle `from` counter-clockwise to angle `to`, in [0, 2 pi)
CcwArc(from, to) == (to - from) % (2 * PI)

WithinOneTurn(x, y) == Abs(x - y) < 2 * PI

\* C19: for hue angles a, b, c within one full turn of each other, b and c
\* not coterminal, areInCyclicOrder(a, b, c) is true exactly when, rotating
\* counter-clockwise from a, b is reached strictly before c, also across the
\* 0/360 seam; hence exactly one of areInCyclicOrder(a, b, c) and
\* areInCyclicOrder(a, c, b) holds.
C19_CyclicOrder ==
  ( /\ Called("areInCyclicOrder")
    /\ WithinOneTurn(call.a, call.b) /\ WithinOneTurn(call.a, call.c) /\ WithinOneTurn(call.b, call.c)
    /\ CcwArc(call.b, call.c) # 0 ) =>
      /\ returned[1] = (CcwArc(call.a, call.b) < CcwArc(call.a, call.c))
      /\ returned[1] # areInCyclicOrder(call.a, call.c, call.b)

\* a = 359, b = 1, c = 10 degrees: the arc from a to b crosses the seam
C19_Witness ==
  /\ Called("areInCyclicOrder")
  /\ call.a = 359 /\ call.b = 1 /\ call.c = 10
  /\ returned[1] = TRUE

(***************************************************************************)
(* DynamicScheme.getPiecewiseHue and getRotatedHue (dynamic_scheme.ts      *)
(* 461-513).  Hues, breakpoints and rotations are in hundredths of a       *)
(* degree; arrays are sequences, so index i of the source is i + 1 here.   *)
(***************************************************************************)
\* Math.min(hueBreakpoints.length - 1, hues.length)
PiecewiseSize(hueBreakpoints, hues) == Min(Len(hueBreakpoints) - 1, Len(hues))

\* the indexes whose interval holds the source hue
MatchingIndexes(sourceHue, hueBreakpoints, size) ==
  {i \in 1..size : sourceHue >= hueBreakpoints[i] /\ sourceHue < hueBreakpoints[i + 1]}

FirstIndex(indexes) == CHOOSE i \in indexes : \A j \in indexes : i <= j

PiecewiseAt(sourceHue, hues, indexes) ==
  IF indexes # {} THEN sanitizeDegreesDouble(hues[FirstIndex(indexes)]) ELSE sourceHue

getPiecewiseHue(sourceHue, hueBreakpoints, hues) ==
  PiecewiseAt(sourceHue, hues,
              MatchingIndexes(sourceHue, hueBreakpoints, PiecewiseSize(hueBreakpoints, hues)))

getRotatedHue(sourceHue, hueBreakpoints, rotations) ==
  sanitizeDegreesDouble(sourceHue +
    (IF PiecewiseSize(hueBreakpoints, rotations) <= 0
       THEN 0
       ELSE getPiecewiseHue(sourceHue, hueBreakpoints, rotations)))

SourceHues == {0, 100, 2600, 10000, 10100, 15000, 20000, 20999, 21000, 30000, 34000, 35999}

BreakpointInputs ==
  {<<>>, <<0>>, <<0, 10100>>, <<10000, 21000>>, <<0, 10100, 21000, 36000>>, <<0, 10100, 21000>>}

RotationInputs ==
  {<<>>, <<2600>>, <<-3900>>, <<2600, -3900, 2800>>, <<2600, -3900>>}

GetRotatedHue(sourceHue, hueBreakpoints, rotations) ==
  /\ call' = [op |-> "getRotatedHue", sourceHue |-> sourceHue, hueBreakpoints |-> hueBreakpoints, rotations |-> rotations]
  /\ returned' = <<getRotatedHue(sourceHue, hueBreakpoints, rotations)>>
  /\ UNCHANGED objectVars

InitRotate == IdleObjects /\ IdleCall

NextRotate ==
  \E sourceHue \in SourceHues, hueBreakpoints \in BreakpointInputs, rotations \in RotationInputs :
    GetRotatedHue(sourceHue, hueBreakpoints, rotations)

SpecRotate == InitRotate /\ [][NextRotate]_vars

\* the intervals [hueBreakpoints[i], hueBreakpoints[i+1]) that hold the hue
CallIntervals ==
  {i \in 1..Min(Len(call.hueBreakpoints) - 1, Len(call.rotations)) :
     call.hueBreakpoints[i] <= call.sourceHue /\ call.sourceHue < call.hueBreakpoints[i + 1]}

\* C20 (as stated): getRotatedHue returns (source hue + rotations[i])
\* normalised to [0, 360) when hueBreakpoints[i] <= source hue <
\* hueBreakpoints[i+1] for an index i below min(hueBreakpoints.length - 1,
\* rotations.length), negative rotations included; when no such interval
\* holds the source hue it returns the source hue unchanged.
C20_RotatedOrUnchanged ==
  Called("getRotatedHue") =>
    /\ \A i \in CallIntervals : returned[1] = (call.sourceHue + call.rotations[i]) % 36000
    /\ CallIntervals = {} => returned[1] = call.sourceHue

\* hue 200 with breakpoints [0, 101] and rotations [26]: no interval holds
\* the hue, and the answer is 40, the hue added to itself
C20_Witness ==
  /\ Called("getRotatedHue")
  /\ call.sourceHue = 20000
  /\ call.hueBreakpoints = <<0, 10100>>
  /\ call.rotations = <<2600>>
  /\ returned[1] = 4000

(***************************************************************************)
(* findDesiredChromaByTone (part_001 2625-2642) and findBestToneForChroma  *)
(* (part_001 3262-3275), one loop iteration per step.  The chroma of       *)
(* Hct.from(hue, chroma, tone) is an input of the search for a tone inside *)
(* (0, 100); for a tone at or beyond the ends solveToInt answers with the  *)
(* gray of that tone (part_001 1400), and the chroma is the one Cam16      *)
(* gives that gray.  The grays of all tones above 100 are the same white   *)
(* and those of all tones below 0 the same black, so the model keeps a     *)
(* tone that far out at MaxBeyond past the end.                            *)
(***************************************************************************)
MaxBeyond == 20

SearchChromas == {1000, 3000, 4790, 6000}

SearchRequests == {300, 4800}

SearchTones == {0, 300, 900, 1000}

\* the chromas Hct.from(hue, chroma, tone).chroma can be
ReportedChromas(chroma, tone) ==
  IF IsGrayRequest(chroma, tone)
    THEN {Cam16_fromInt(argbFromLstar(tone)).chroma}
    ELSE SearchChromas

\* tone += byDecreasingTone ? -1 : 1
StepTone(tone, byDecreasingTone) ==
  clampDouble(-MaxBeyond, 1000 + MaxBeyond, IF byDecreasingTone THEN tone - 10 ELSE tone + 10)

SearchingFor(op) == call # <<>> /\ call.op = op /\ returned = <<>>

\* findDesiredChromaByTone up to the first test of the loop
FindDesiredBegin(chroma, tone, byDecreasingTone) ==
  /\ returned # <<>> \/ call = <<>>
  /\ \E closest \in ReportedChromas(chroma, tone) :
       /\ call' = [op |-> "findDesiredChromaByTone", chroma |-> chroma, tone |-> tone, byDecreasingTone |-> byDecreasingTone, answer |-> tone, closestToChroma |-> closest, chromaPeak |-> closest]
       /\ returned' = IF closest < chroma THEN <<>> ELSE <<tone>>
  /\ UNCHANGED objectVars

\* the body of the loop, for the chroma of potentialSolution
DesiredBody(frame, answer, potential) ==
  IF frame.chromaPeak > potential \/ Abs(potential - frame.chroma) < 40
    THEN [frame |-> [frame EXCEPT !.answer = answer], out |-> <<answer>>]
    ELSE [frame |-> [frame EXCEPT !.answer = answer,
                                  !.closestToChroma = IF Abs(potential - frame.chroma) < Abs(frame.closestToChroma - frame.chroma)
                                                        THEN potential ELSE frame.closestToChroma,
                                  !.chromaPeak = Max(frame.chromaPeak, potential)],
          out |-> IF Abs(potential - frame.chroma) < Abs(frame.closestToChroma - frame.chroma) /\ potential >= frame.chroma
                    THEN <<answer>> ELSE <<>>]

AfterSearchBody(next) ==
  /\ call' = next.frame
  /\ returned' = next.out
  /\ UNCHANGED objectVars

\* while (closestToChroma.chroma < chroma) { ... }
FindDesiredStep ==
  /\ SearchingFor("findDesiredChromaByTone")
  /\ \E potential \in ReportedChromas(call.chroma, StepTone(call.answer, call.byDecreasingTone)) :
       AfterSearchBody(DesiredBody(call, StepTone(call.answer, call.byDecreasingTone), potential))

\* findBestToneForChroma up to the first test of the loop
FindBestBegin(chroma, tone, byDecreasingTone) ==
  /\ returned # <<>> \/ call = <<>>
  /\ \E best \in ReportedChromas(chroma, tone) :
       /\ call' = [op |-> "findBestToneForChroma", chroma |-> chroma, tone |-> tone, byDecreasingTone |-> byDecreasingTone, answer |-> tone, bestCandidate |-> best]
       /\ returned' = IF best < chroma THEN <<>> ELSE <<tone>>
  /\ UNCHANGED objectVars

\* the body of the loop after the range test, for the chroma of newCandidate
BestBody(frame, tone, newCandidate) ==
  IF frame.bestCandidate < newCandidate
    THEN [frame |-> [frame EXCEPT !.tone = tone, !.answer = tone, !.bestCandidate = newCandidate],
          out |-> IF newCandidate < frame.chroma THEN <<>> ELSE <<tone>>]
    ELSE [frame |-> [frame EXCEPT !.tone = tone], out |-> <<>>]

\* while (bestCandidate.chroma < chroma) { if (tone < 0 || tone > 100) break; ... }
FindBestStep ==
  /\ SearchingFor("findBestToneForChroma")
  /\ IF call.tone < 0 \/ call.tone > 1000
       THEN returned' = <<call.answer>> /\ UNCHANGED <<call, objectVars>>
       ELSE \E newCandidate \in ReportedChromas(call.chroma, StepTone(call.tone, call.byDecreasingTone)) :
              AfterSearchBody(BestBody(call, StepTone(call.tone, call.byDecreasingTone), newCandidate))

InitSearch == IdleObjects /\ IdleCall

NextSearch ==
  \/ \E chroma \in SearchRequests, tone \in SearchTones, byDecreasingTone \in BOOLEAN :
       \/ FindDesiredBegin(chroma, tone, byDecreasingTone)
       \/ FindBestBegin(chroma, tone, byDecreasingTone)
  \/ FindDesiredStep
  \/ FindBestStep

SpecSearch ==
  InitSearch /\ [][NextSearch]_vars /\ WF_vars(FindDesiredStep) /\ WF_vars(FindBestStep)

SearchReturned == call # <<>> /\ returned # <<>>

alphaFromArgb(argb) == argb[1] % 256

\* the 32-bit signed integer of four bytes: the result of `|` and `<<`
ToInt32(bytes) ==
  <<IF bytes[1] % 256 >= 128 THEN (bytes[1] % 256) - 256 ELSE bytes[1] % 256, bytes[2], bytes[3], bytes[4]>>

OpaqueIndexes(pixels) == {i \in 1..Len(pixels) : ~(alphaFromArgb(pixels[i]) < 255)}

\* QuantizerMap.quantize: the map from each opaque color to its count
QuantizerMap_quantize(pixels) ==
  [pixel \in {pixels[i] : i \in OpaqueIndexes(pixels)} |->
     Cardinality({i \in OpaqueIndexes(pixels) : pixels[i] = pixel})]

RECURSIVE SumOver(_, _)
SumOver(f, keys) ==
  IF keys = {} THEN 0
  ELSE CHOOSE sum \in {f[key] + SumOver(f, rest) :
                         key \in {CHOOSE k \in keys : TRUE}, rest \in {keys \ {CHOOSE k \in keys : TRUE}}} : TRUE

INDEX_BITS == 5
SIDE_LENGTH == 33

\* (component >> bitsToRemove) + 1
HistogramIndex(component) == (component \div (2 ^ (8 - INDEX_BITS))) + 1

\* what constructHistogram adds to the cell of a color, in each of the five
\* arrays
HistogramTerm(moment, pixel, count) ==
  CASE moment = "weights" -> count
    [] moment = "momentsR" -> count * redFromArgb(pixel)
    [] moment = "momentsG" -> count * greenFromArgb(pixel)
    [] moment = "momentsB" -> count * blueFromArgb(pixel)
    [] moment = "moments" ->
         count * (redFromArgb(pixel) * redFromArgb(pixel) + greenFromArgb(pixel) * greenFromArgb(pixel)
                    + blueFromArgb(pixel) * blueFromArgb(pixel))

\* moment[getIndex(r, g, b)] after computeMoments: the sum of the histogram
\* cells with indexes up to r, g and b
MomentAt(countByColor, moment, r, g, b) ==
  SumOver([pixel \in {p \in DOMAIN countByColor :
                        /\ HistogramIndex(redFromArgb(p)) <= r
                        /\ HistogramIndex(greenFromArgb(p)) <= g
                        /\ HistogramIndex(blueFromArgb(p)) <= b} |->
             HistogramTerm(moment, pixel, countByColor[pixel])],
          {p \in DOMAIN countByColor :
             /\ HistogramIndex(redFromArgb(p)) <= r
             /\ HistogramIndex(greenFromArgb(p)) <= g
             /\ HistogramIndex(blueFromArgb(p)) <= b})

Box == [r0 |-> 0, r1 |-> 0, g0 |-> 0, g1 |-> 0, b0 |-> 0, b1 |-> 0, vol |-> 0]

volume(h, cube, moment) ==
  MomentAt(h, moment, cube.r1, cube.g1, cube.b1) - MomentAt(h, moment, cube.r1, cube.g1, cube.b0)
    - MomentAt(h, moment, cube.r1, cube.g0, cube.b1) + MomentAt(h, moment, cube.r1, cube.g0, cube.b0)
    - MomentAt(h, moment, cube.r0, cube.g1, cube.b1) + MomentAt(h, moment, cube.r0, cube.g1, cube.b0)
    + MomentAt(h, moment, cube.r0, cube.g0, cube.b1) - MomentAt(h, moment, cube.r0, cube.g0, cube.b0)

bottom(h, cube, direction, moment) ==
  CASE direction = "red" ->
         -MomentAt(h, moment, cube.r0, cube.g1, cube.b1) + MomentAt(h, moment, cube.r0, cube.g1, cube.b0)
           + MomentAt(h, moment, cube.r0, cube.g0, cube.b1) - MomentAt(h, moment, cube.r0, cube.g0, cube.b0)
    [] direction = "green" ->
         -MomentAt(h, moment, cube.r1, cube.g0, cube.b1) + MomentAt(h, moment, cube.r1, cube.g0, cube.b0)
           + MomentAt(h, moment, cube.r0, cube.g0, cube.b1) - MomentAt(h, moment, cube.r0, cube.g0, cube.b0)
    [] direction = "blue" ->
         -MomentAt(h, moment, cube.r1, cube.g1, cube.b0) + MomentAt(h, moment, cube.r1, cube.g0, cube.b0)
           + MomentAt(h, moment, cube.r0, cube.g1, cube.b0) - MomentAt(h, moment, cube.r0, cube.g0, cube.b0)

top(h, cube, direction, position, moment) ==
  CASE direction = "red" ->
         MomentAt(h, moment, position, cube.g1, cube.b1) - MomentAt(h, moment, position, cube.g1, cube.b0)
           - MomentAt(h, moment, position, cube.g0, cube.b1) + MomentAt(h, moment, position, cube.g0, cube.b0)
    [] direction = "green" ->
         MomentAt(h, moment, cube.r1, position, cube.b1) - MomentAt(h, moment, cube.r1, position, cube.b0)
           - MomentAt(h, moment, cube.r0, position, cube.b1) + MomentAt(h, moment, cube.r0, position, cube.b0)
    [] direction = "blue" ->
         MomentAt(h, moment, cube.r1, cube.g1, position) - MomentAt(h, moment, cube.r1, cube.g0, position)
           - MomentAt(h, moment, cube.r0, cube.g1, position) + MomentAt(h, moment, cube.r0, cube.g0, position)

\* A quotient of two integers is kept as <<numerator, denominator>> with a
\* denominator above 0; the denominator 0 is NaN (0 / 0), which compares
\* false with everything.
Quotient(numerator, denominator) == <<numerator, denominator>>

Greater(a, b) == a[2] # 0 /\ b[2] # 0 /\ a[1] * b[2] > b[1] * a[2]

AtLeast(a, b) == a[2] # 0 /\ b[2] # 0 /\ a[1] * b[2] >= b[1] * a[2]

Plus(a, b) == IF a[2] = 0 \/ b[2] = 0 THEN <<0, 0>> ELSE <<a[1] * b[2] + b[1] * a[2], a[2] * b[2]>>

SumOfSquares(r, g, b) == r * r + g * g + b * b

\* bottomR, bottomG, bottomB and bottomW of maximize
Bottoms(h, cube, direction) ==
  [momentsR |-> bottom(h, cube, direction, "momentsR"),
   momentsG |-> bottom(h, cube, direction, "momentsG"),
   momentsB |-> bottom(h, cube, direction, "momentsB"),
   weights |-> bottom(h, cube, direction, "weights")]

\* halfR, halfG, halfB and halfW at a position: bottom + top
Half(h, cube, direction, position, bottoms) ==
  [momentsR |-> bottoms.momentsR + top(h, cube, direction, position, "momentsR"),
   momentsG |-> bottoms.momentsG + top(h, cube, direction, position, "momentsG"),
   momentsB |-> bottoms.momentsB + top(h, cube, direction, position, "momentsB"),
   weights |-> bottoms.weights + top(h, cube, direction, position, "weights")]

\* temp of the maximize loop for a cut that leaves both halves a weight
CutTemp(half, whole) ==
  Plus(Quotient(SumOfSquares(half.momentsR, half.momentsG, half.momentsB), half.weights),
       Quotient(SumOfSquares(whole.momentsR - half.momentsR, whole.momentsG - half.momentsG,
                             whole.momentsB - half.momentsB),
                whole.weights - half.weights))

MaximizeBody(half, whole, i, best) ==
  IF half.weights = 0 THEN best
  ELSE IF whole.weights - half.weights = 0 THEN best
  ELSE IF Greater(CutTemp(half, whole), best.maximum)
    THEN [cutLocation |-> i, maximum |-> CutTemp(half, whole)]
  ELSE best

\* for (i = first; i < last; i++); the sums of the half and the value after
\* the body are taken once in each iteration
RECURSIVE MaximizeLoop(_, _, _, _, _, _, _, _)
MaximizeLoop(h, cube, direction, i, last, whole, bottoms, best) ==
  IF ~(i < last) THEN best
  ELSE CHOOSE result \in {MaximizeLoop(h, cube, direction, i + 1, last, whole, bottoms, after) :
                            after \in {MaximizeBody(half, whole, i, best) :
                                         half \in {Half(h, cube, direction, i, bottoms)}}} : TRUE

maximize(h, cube, direction, first, last, whole) ==
  CHOOSE result \in {MaximizeLoop(h, cube, direction, first, last, whole, bottoms,
                                  [cutLocation |-> -1, maximum |-> Quotient(0, 1)]) :
                       bottoms \in {Bottoms(h, cube, direction)}} : TRUE

Whole(h, cube) ==
  [momentsR |-> volume(h, cube, "momentsR"),
   momentsG |-> volume(h, cube, "momentsG"),
   momentsB |-> volume(h, cube, "momentsB"),
   weights |-> volume(h, cube, "weights")]

WithVol(cube) == [cube EXCEPT !.vol = (cube.r1 - cube.r0) * (cube.g1 - cube.g0) * (cube.b1 - cube.b0)]

\* the two boxes after a cut of `one` in the direction at the location
CutBoxes(one, direction, cutLocation) ==
  CASE direction = "red" ->
         [one |-> WithVol([one EXCEPT !.r1 = cutLocation]),
          two |-> WithVol([one EXCEPT !.r0 = cutLocation])]
    [] direction = "green" ->
         [one |-> WithVol([one EXCEPT !.g1 = cutLocation]),
          two |-> WithVol([one EXCEPT !.g0 = cutLocation])]
    [] direction = "blue" ->
         [one |-> WithVol([one EXCEPT !.b1 = cutLocation]),
          two |-> WithVol([one EXCEPT !.b0 = cutLocation])]

CutDecision(one, two, maxR, maxG, maxB) ==
  IF AtLeast(maxR.maximum, maxG.maximum) /\ AtLeast(maxR.maximum, maxB.maximum)
    THEN IF maxR.cutLocation < 0
           THEN [ok |-> FALSE, one |-> one, two |-> two]
           ELSE [ok |-> TRUE] @@ CutBoxes(one, "red", maxR.cutLocation)
  ELSE IF AtLeast(maxG.maximum, maxR.maximum) /\ AtLeast(maxG.maximum, maxB.maximum)
    THEN [ok |-> TRUE] @@ CutBoxes(one, "green", maxG.cutLocation)
  ELSE [ok |-> TRUE] @@ CutBoxes(one, "blue", maxB.cutLocation)

CutOfWhole(h, one, two, whole) ==
  CHOOSE result \in {CutDecision(one, two, maxRResult, maxGResult, maxBResult) :
                       maxRResult \in {maximize(h, one, "red", one.r0 + 1, one.r1, whole)},
                       maxGResult \in {maximize(h, one, "green", one.g0 + 1, one.g1, whole)},
                       maxBResult \in {maximize(h, one, "blue", one.b0 + 1, one.b1, whole)}} : TRUE

cut(h, one, two) ==
  CHOOSE result \in {CutOfWhole(h, one, two, whole) : whole \in {Whole(h, one)}} : TRUE

\* xx - hypotenuse / volume
variance(h, cube) ==
  Quotient(volume(h, cube, "moments") * volume(h, cube, "weights")
             - SumOfSquares(volume(h, cube, "momentsR"), volume(h, cube, "momentsG"),
                            volume(h, cube, "momentsB")),
           volume(h, cube, "weights"))

VolumeVariance(h, cube) == IF cube.vol > 1 THEN variance(h, cube) ELSE Quotient(0, 1)

AtMostZero(a) == a[2] # 0 /\ a[1] <= 0

\* createBoxes up to the loop: the first box is the whole cube
CreateBoxesFrame(maxColors) ==
  [cubes |-> [k \in 1..maxColors |->
                IF k = 1 THEN [Box EXCEPT !.r1 = SIDE_LENGTH - 1, !.g1 = SIDE_LENGTH - 1, !.b1 = SIDE_LENGTH - 1]
                ELSE Box],
   volumeVariance |-> [k \in 1..maxColors |-> Quotient(0, 1)],
   generatedColorCount |-> maxColors,
   next |-> 0,
   i |-> 1,
   broke |-> FALSE]

\* the if and else of the loop body, for the outcome of cut; JavaScript's
\* index k is the sequence's k + 1
AfterCut(h, frame, outcome) ==
  IF outcome.ok
    THEN [frame EXCEPT !.cubes[frame.next + 1] = outcome.one,
                       !.cubes[frame.i + 1] = outcome.two,
                       !.volumeVariance[frame.next + 1] = VolumeVariance(h, outcome.one),
                       !.volumeVariance[frame.i + 1] = VolumeVariance(h, outcome.two)]
    ELSE [frame EXCEPT !.volumeVariance[frame.next + 1] = Quotient(0, 1),
                       !.i = frame.i - 1]

\* for (j = 1; j <= i; j++) if (volumeVariance[j] > temp) ...
RECURSIVE LargestVariance(_, _, _, _)
LargestVariance(volumeVariance, j, i, best) ==
  IF ~(j <= i) THEN best
  ELSE CHOOSE result \in {LargestVariance(volumeVariance, j + 1, i, after) :
                            after \in {IF Greater(volumeVariance[j + 1], best.temp)
                                          THEN [temp |-> volumeVariance[j + 1], next |-> j]
                                          ELSE best}} : TRUE

AfterSelection_CountIsIndex(frame, best) ==
  IF AtMostZero(best.temp)
    THEN [frame EXCEPT !.next = best.next, !.generatedColorCount = frame.i, !.broke = TRUE]
    ELSE [frame EXCEPT !.next = best.next, !.i = frame.i + 1]

\* the end of the loop body: the break, or the i++ of the for statement
AfterSelection(frame, best) ==
  IF AtMostZero(best.temp)
    THEN [frame EXCEPT !.next = best.next, !.generatedColorCount = frame.i + 1, !.broke = TRUE]
    ELSE [frame EXCEPT !.next = best.next, !.i = frame.i + 1]

Selected(frame) ==
  AfterSelection(frame, LargestVariance(frame.volumeVariance, 1, frame.i,
                                        [temp |-> frame.volumeVariance[1], next |-> 0]))

\* one iteration of the loop of createBoxes
createBoxesBody(h, frame) ==
  CHOOSE result \in {Selected(after) :
                       after \in {AfterCut(h, frame, outcome) :
                                    outcome \in {cut(h, frame.cubes[frame.next + 1], frame.cubes[frame.i + 1])}}} : TRUE

InCreateBoxesLoop(frame, maxColors) == ~frame.broke /\ frame.i < maxColors

RECURSIVE createBoxes(_, _, _)
createBoxes(h, maxColors, frame) ==
  IF InCreateBoxesLoop(frame, maxColors)
    THEN createBoxes(h, maxColors, createBoxesBody(h, frame))
    ELSE frame

\* Math.round of a quotient of two sums that are not negative
RoundedMean(sum, weight) == (2 * sum + weight) \div (2 * weight)

\* 255 << 24 | (r & 255) << 16 | (g & 255) << 8 | b & 255
BoxColor(h, cube) ==
  ToInt32(<<255,
            RoundedMean(volume(h, cube, "momentsR"), volume(h, cube, "weights")) % 256,
            RoundedMean(volume(h, cube, "momentsG"), volume(h, cube, "weights")) % 256,
            RoundedMean(volume(h, cube, "momentsB"), volume(h, cube, "weights")) % 256>>)

RECURSIVE createResult(_, _, _, _)
createResult(h, cubes, i, colorCount) ==
  IF ~(i < colorCount) THEN <<>>
  ELSE (IF volume(h, cubes[i + 1], "weights") > 0 THEN <<BoxColor(h, cubes[i + 1])>> ELSE <<>>)
         \o createResult(h, cubes, i + 1, colorCount)

ResultOf(h, frame) == createResult(h, frame.cubes, 0, frame.generatedColorCount)

QuantizerWu_quantize(pixels, maxColors) ==
  ResultOf(QuantizerMap_quantize(pixels),
           createBoxes(QuantizerMap_quantize(pixels), maxColors, CreateBoxesFrame(maxColors)))

(***************************************************************************)
(* quantize/point_provider_lab.ts, quantize/quantizer_wsmeans.ts           *)
(* The pixels of the model are grays, whose L*a*b* points are (L*, 0, 0):  *)
(* a point is its L* in tenths, the squared distance of two points is the  *)
(* square of the difference, and its root the absolute difference.  A      *)
(* centroid is rounded to the tenth.                                       *)
(***************************************************************************)
MAX_ITERATIONS == 10
\* 3.0 in tenths of L*
MIN_MOVEMENT_DISTANCE == 30

LabPointProvider_fromInt(argb) == lstarFromArgb(argb)

LabPointProvider_toInt(point) == argbFromLstar(point)

LabPointProvider_distance(from, to) == (from - to) * (from - to)

\* Math.sqrt(distance(from, to))
RootOfDistance(from, to) == Abs(from - to)

\* the `pixels` array: the input pixels in the order of their first
\* occurrence, a non-opaque pixel as any other
RECURSIVE FirstOccurrences(_, _)
FirstOccurrences(inputPixels, i) ==
  IF i > Len(inputPixels) THEN <<>>
  ELSE (IF \E j \in 1..(i - 1) : inputPixels[j] = inputPixels[i] THEN <<>> ELSE <<inputPixels[i]>>)
         \o FirstOccurrences(inputPixels, i + 1)

PointsOf(pixels) == [k \in DOMAIN pixels |-> LabPointProvider_fromInt(pixels[k])]

CountsOf_Distinct(inputPixels, pixels) == [k \in DOMAIN pixels |-> 1]

CountsOf(inputPixels, pixels) ==
  [k \in DOMAIN pixels |-> Cardinality({i \in 1..Len(inputPixels) : inputPixels[i] = pixels[k]})]

ClusterCount(pointCount, startingClusters, maxColors) ==
  IF Len(startingClusters) > 0
    THEN Min(Min(maxColors, pointCount), Len(startingClusters))
    ELSE Min(maxColors, pointCount)

\* the clusters before the first iteration; the random clusters are made
\* only when there are no starting clusters
InitialClusters(startingClusters, clusterCount, randomClusters) ==
  IF Len(startingClusters) = 0 /\ clusterCount > 0
    THEN randomClusters
    ELSE [k \in DOMAIN startingClusters |-> LabPointProvider_fromInt(startingClusters[k])]

\* distanceToIndexMatrix[a][b].distance: the diagonal keeps the -1 of a new
\* DistanceAndIndex, and sort() without a comparator leaves every row as it
\* is, for all elements have the same string
ClusterDistance(clusters, a, b) ==
  IF a = b THEN -1 ELSE LabPointProvider_distance(clusters[a + 1], clusters[b + 1])

\* for (j = 0; j < clusterCount; j++) of one point
RECURSIVE NearestLoop(_, _, _, _, _, _)
NearestLoop(point, clusters, previous, j, clusterCount, best) ==
  IF ~(j < clusterCount) THEN best
  ELSE NearestLoop(point, clusters, previous, j + 1, clusterCount,
         IF ClusterDistance(clusters, previous, j) >= 4 * LabPointProvider_distance(point, clusters[previous + 1])
           THEN best
         ELSE IF LabPointProvider_distance(point, clusters[j + 1]) < best.minimumDistance
           THEN [minimumDistance |-> LabPointProvider_distance(point, clusters[j + 1]), newClusterIndex |-> j]
         ELSE best)

\* the cluster index of a point after the body of the points loop
MovedIndex(point, clusters, previous, best) ==
  IF best.newClusterIndex = -1 THEN previous
  ELSE IF Abs(RootOfDistance(point, clusters[best.newClusterIndex + 1])
                - RootOfDistance(point, clusters[previous + 1])) > MIN_MOVEMENT_DISTANCE
    THEN best.newClusterIndex
  ELSE previous

Reassigned(points, clusters, clusterIndices, clusterCount) ==
  [k \in DOMAIN points |->
     MovedIndex(points[k], clusters, clusterIndices[k],
                NearestLoop(points[k], clusters, clusterIndices[k], 0, clusterCount,
                            [minimumDistance |-> LabPointProvider_distance(points[k], clusters[clusterIndices[k] + 1]),
                             newClusterIndex |-> -1]))]

PixelCountSums(counts, clusterIndices, clusterCount) ==
  [c \in 1..clusterCount |->
     SumOver([k \in DOMAIN counts |-> IF clusterIndices[k] = c - 1 THEN counts[k] ELSE 0], DOMAIN counts)]

ComponentSums(points, counts, clusterIndices, clusterCount) ==
  [c \in 1..clusterCount |->
     SumOver([k \in DOMAIN counts |-> IF clusterIndices[k] = c - 1 THEN points[k] * counts[k] ELSE 0],
             DOMAIN counts)]

Centroids(clusters, componentSums, pixelCountSums) ==
  [c \in DOMAIN clusters |->
     IF c > Len(pixelCountSums) THEN clusters[c]
     ELSE IF pixelCountSums[c] = 0 THEN 0
     ELSE (2 * componentSums[c] + pixelCountSums[c]) \div (2 * pixelCountSums[c])]

\* for (iteration = 0; iteration < MAX_ITERATIONS; iteration++)
RECURSIVE WsmeansLoop(_, _, _, _)
WsmeansIteration(points, counts, clusterCount, frame, clusterIndices) ==
  IF clusterIndices = frame.clusterIndices /\ frame.iteration # 0
    THEN frame
    ELSE WsmeansLoop(points, counts, clusterCount,
           [clusters |-> Centroids(frame.clusters,
                                   ComponentSums(points, counts, clusterIndices, clusterCount),
                                   PixelCountSums(counts, clusterIndices, clusterCount)),
            clusterIndices |-> clusterIndices,
            pixelCountSums |-> PixelCountSums(counts, clusterIndices, clusterCount),
            iteration |-> frame.iteration + 1])

WsmeansLoop(points, counts, clusterCount, frame) ==
  IF ~(frame.iteration < MAX_ITERATIONS) THEN frame
  ELSE WsmeansIteration(points, counts, clusterCount, frame,
                        Reassigned(points, frame.clusters, frame.clusterIndices, clusterCount))

\* argbToPopulation: the first cluster of a color gives its population
Populations(clusters, pixelCountSums) ==
  [argb \in {LabPointProvider_toInt(clusters[c]) : c \in {d \in DOMAIN pixelCountSums : pixelCountSums[d] # 0}} |->
     pixelCountSums[CHOOSE c \in DOMAIN pixelCountSums :
                      /\ pixelCountSums[c] # 0
                      /\ LabPointProvider_toInt(clusters[c]) = argb
                      /\ \A d \in 1..(c - 1) :
                           pixelCountSums[d] = 0 \/ LabPointProvider_toInt(clusters[d]) # argb]]

PopulationsOf(frame) == Populations(frame.clusters, frame.pixelCountSums)

WsmeansOfPoints(points, counts, clusterCount, clusters, clusterIndices) ==
  PopulationsOf(WsmeansLoop(points, counts, clusterCount,
                            [clusters |-> clusters,
                             clusterIndices |-> clusterIndices,
                             pixelCountSums |-> [c \in 1..clusterCount |-> 0],
                             iteration |-> 0]))

\* random.clusters are the draws of the random clusters, random.indices the
\* draws Math.floor(Math.random() * clusterCount) of the points
QuantizerWsmeans_quantize(inputPixels, startingClusters, maxColors, random) ==
  WsmeansOfPoints(PointsOf(FirstOccurrences(inputPixels, 1)),
                  CountsOf(inputPixels, FirstOccurrences(inputPixels, 1)),
                  ClusterCount(Len(FirstOccurrences(inputPixels, 1)), startingClusters, maxColors),
                  InitialClusters(startingClusters,
                                  ClusterCount(Len(FirstOccurrences(inputPixels, 1)), startingClusters, maxColors),
                                  random.clusters),
                  random.indices)

\* the draws of one call of QuantizerWsmeans.quantize
RandomLstars == {250, 750}

RandomDraws(pointCount, clusterCount, startingClusters) ==
  [clusters : IF Len(startingClusters) = 0 /\ clusterCount > 0
                THEN [1..clusterCount -> RandomLstars] ELSE {<<>>},
   indices : [1..pointCount -> 0..(clusterCount - 1)]]

DrawsFor(inputPixels, startingClusters, maxColors) ==
  RandomDraws(Len(FirstOccurrences(inputPixels, 1)),
              ClusterCount(Len(FirstOccurrences(inputPixels, 1)), startingClusters, maxColors),
              startingClusters)

QuantizerCelebi_quantize(pixels, maxColors, random) ==
  QuantizerWsmeans_quantize(pixels, QuantizerWu_quantize(pixels, maxColors), maxColors, random)

CelebiDraws(pixels, maxColors) == DrawsFor(pixels, QuantizerWu_quantize(pixels, maxColors), maxColors)

(***************************************************************************)
(* The calls of the four quantizers.  The loop of createBoxes takes one    *)
(* step for each iteration; QuantizerCelebi.quantize goes on with          *)
(* QuantizerWsmeans.quantize when QuantizerWu.quantize has returned.  A     *)
(* behaviour is one call: the quantizers keep nothing between two calls.   *)
(***************************************************************************)
MaxPixels == 3
MaxColorsAsked == 3

Opaque(component) == argbFromRgb(component, component, component)

Translucent(component) == <<128, component, component, component>>

\* 100 and 103 fall into one cell of the histogram, 103 and 104 into two
GrayPixels == {Opaque(100), Opaque(103), Opaque(104), Translucent(200)}

SequencesUpTo(pixels, length) == UNION {[1..n -> pixels] : n \in 0..length}

GrayImages == SequencesUpTo(GrayPixels, MaxPixels)

\* images whose boxes are cut along green and blue
ChromaticImages ==
  {<<argbFromRgb(0, 0, 0), argbFromRgb(0, 255, 0)>>,
   <<argbFromRgb(0, 0, 0), Translucent(200), argbFromRgb(0, 0, 255)>>,
   <<argbFromRgb(0, 0, 255), argbFromRgb(0, 255, 0), argbFromRgb(0, 0, 0), argbFromRgb(255, 0, 0)>>}

StartingClusters == {<<>>, <<Opaque(103), Opaque(104)>>}

QuantizeMap(pixels) ==
  /\ call = <<>>
  /\ call' = [op |-> "QuantizerMap.quantize", pixels |-> pixels]
  /\ returned' = <<QuantizerMap_quantize(pixels)>>
  /\ UNCHANGED objectVars

QuantizeWsmeans(inputPixels, startingClusters, maxColors) ==
  /\ call = <<>>
  /\ \E random \in DrawsFor(inputPixels, startingClusters, maxColors) :
       /\ call' = [op |-> "QuantizerWsmeans.quantize", pixels |-> inputPixels, startingClusters |-> startingClusters,
                   maxColors |-> maxColors, random |-> random]
       /\ returned' = <<QuantizerWsmeans_quantize(inputPixels, startingClusters, maxColors, random)>>
  /\ UNCHANGED objectVars

\* QuantizerWu.quantize up to the loop of createBoxes, for itself or for
\* QuantizerCelebi.quantize
CreateBoxesBegin(op, pixels, maxColors) ==
  /\ call = <<>>
  /\ call' = [op |-> op, pixels |-> pixels, maxColors |-> maxColors,
              countByColor |-> QuantizerMap_quantize(pixels), frame |-> CreateBoxesFrame(maxColors),
              wuResult |-> <<>>, random |-> <<>>]
  /\ returned' = <<>>
  /\ UNCHANGED objectVars

InCreateBoxes ==
  /\ call # <<>>
  /\ call.op \in {"QuantizerWu.quantize", "QuantizerCelebi.quantize"}
  /\ returned = <<>>

\* for (i = 1; i < maxColors; i++) { ... }
CreateBoxesStep ==
  /\ InCreateBoxes
  /\ InCreateBoxesLoop(call.frame, call.maxColors)
  /\ call' = [call EXCEPT !.frame = createBoxesBody(call.countByColor, call.frame)]
  /\ UNCHANGED <<returned, objectVars>>

\* createResult, and the return of QuantizerWu.quantize
WuReturn ==
  /\ InCreateBoxes
  /\ call.op = "QuantizerWu.quantize"
  /\ ~InCreateBoxesLoop(call.frame, call.maxColors)
  /\ returned' = <<ResultOf(call.countByColor, call.frame)>>
  /\ UNCHANGED <<call, objectVars>>

WsmeansOfWu(wuResult) ==
  \E random \in DrawsFor(call.pixels, wuResult, call.maxColors) :
    /\ call' = [call EXCEPT !.wuResult = wuResult, !.random = random]
    /\ returned' = <<QuantizerWsmeans_quantize(call.pixels, wuResult, call.maxColors, random)>>

\* return QuantizerWsmeans.quantize(pixels, wuResult, maxColors)
CelebiReturn ==
  /\ InCreateBoxes
  /\ call.op = "QuantizerCelebi.quantize"
  /\ ~InCreateBoxesLoop(call.frame, call.maxColors)
  /\ WsmeansOfWu(ResultOf(call.countByColor, call.frame))
  /\ UNCHANGED objectVars

InitQuantize == IdleObjects /\ IdleCall

NextQuantize ==
  \/ \E pixels \in GrayImages, maxColors \in 1..MaxColorsAsked :
       \/ QuantizeMap(pixels)
       \/ CreateBoxesBegin("QuantizerCelebi.quantize", pixels, maxColors)
       \/ \E startingClusters \in StartingClusters : QuantizeWsmeans(pixels, startingClusters, maxColors)
  \/ \E pixels \in GrayImages \cup ChromaticImages, maxColors \in 1..MaxColorsAsked :
       CreateBoxesBegin("QuantizerWu.quantize", pixels, maxColors)
  \/ CreateBoxesStep
  \/ WuReturn
  \/ CelebiReturn

SpecQuantize == InitQuantize /\ [][NextQuantize]_vars

\* the calls of QuantizerWu.quantize alone; a call that has begun goes on
\* to its return
WuImages ==
  SequencesUpTo({Opaque(100), Opaque(200)}, MaxPixels)
    \cup ChromaticImages \cup {<<Opaque(100), Opaque(103), Opaque(200)>>}

NextWu ==
  \/ \E pixels \in WuImages, maxColors \in 1..MaxColorsAsked :
       CreateBoxesBegin("QuantizerWu.quantize", pixels, maxColors)
  \/ CreateBoxesStep
  \/ WuReturn

SpecWu == InitQuantize /\ [][NextWu]_vars /\ WF_vars(CreateBoxesStep) /\ WF_vars(WuReturn)

Quantized == call # <<>> /\ returned # <<>>

\* the pixel array with every non-opaque pixel removed
OpaqueOnly(pixels) == SelectSeq(pixels, LAMBDA pixel : ~(alphaFromArgb(pixel) < 255))

\* what the quantizer of a call can return for a pixel array, over all the
\* draws of Math.random
ResultsFor(op, pixels, c) ==
  CASE op = "QuantizerMap.quantize" -> {QuantizerMap_quantize(pixels)}
    [] op = "QuantizerWu.quantize" -> {QuantizerWu_quantize(pixels, c.maxColors)}
    [] op = "QuantizerWsmeans.quantize" ->
         {QuantizerWsmeans_quantize(pixels, c.startingClusters, c.maxColors, random) :
            random \in DrawsFor(pixels, c.startingClusters, c.maxColors)}
    [] op = "QuantizerCelebi.quantize" ->
         {QuantizerCelebi_quantize(pixels, c.maxColors, random) : random \in CelebiDraws(pixels, c.maxColors)}

\* C22 (as stated): pixels whose alpha is below 255 are excluded from
\* quantization: what QuantizerMap, QuantizerWu, QuantizerWsmeans and
\* QuantizerCelebi return for a pixel array is a result of the same array
\* with every non-opaque pixel removed.
C22_NonOpaqueExcluded ==
  Quantized => returned[1] \in ResultsFor(call.op, OpaqueOnly(call.pixels), call)

\* QuantizerCelebi.quantize has returned populations that count more pixels
\* than the array has opaque ones
C22_Witness ==
  /\ Called("QuantizerCelebi.quantize")
  /\ OpaqueOnly(call.pixels) # call.pixels
  /\ SumOver(returned[1], DOMAIN returned[1]) > Len(OpaqueOnly(call.pixels))

\* C23 (as stated): on the Wu-seeded path QuantizerCelebi.quantize is
\* deterministic: the map returned for the pixels and maxColors of a call is
\* the map of every other call with them, whatever Math.random draws inside
\* QuantizerWsmeans.
C23_CelebiDeterministic ==
  Called("QuantizerCelebi.quantize") /\ Len(call.wuResult) > 0 =>
    \A random \in CelebiDraws(call.pixels, call.maxColors) :
      QuantizerCelebi_quantize(call.pixels, call.maxColors, random) = returned[1]

\* two Wu seeds closer than MIN_MOVEMENT_DISTANCE, and both points drawn
\* into the first cluster: one color is returned where the draw of a point
\* into each cluster returns two
C23_Witness ==
  /\ Called("QuantizerCelebi.quantize")
  /\ Len(call.wuResult) = 2
  /\ RootOfDistance(LabPointProvider_fromInt(call.wuResult[1]), LabPointProvider_fromInt(call.wuResult[2]))
       < MIN_MOVEMENT_DISTANCE
  /\ call.random.indices = <<0, 0>>
  /\ Cardinality(DOMAIN returned[1]) = 1
  /\ Cardinality(DOMAIN QuantizerCelebi_quantize(call.pixels, call.maxColors, [clusters |-> <<>>, indices |-> <<0, 1>>])) = 2

\* all pixels are one and the same opaque color
SingleColor(pixels) ==
  /\ Len(pixels) > 0
  /\ \A i \in 1..Len(pixels) : pixels[i] = pixels[1] /\ alphaFromArgb(pixels[i]) = 255 /\ pixels[i][1] = 255

\* C24: for a pixel array whose pixels are all one opaque color and any
\* maxColors of 1 or more, QuantizerCelebi.quantize returns exactly one
\* entry: the color, with the number of pixels as its value.
C24_SingleColorImage ==
  Called("QuantizerCelebi.quantize") /\ SingleColor(call.pixels) =>
    /\ DOMAIN returned[1] = {call.pixels[1]}
    /\ returned[1][call.pixels[1]] = Len(call.pixels)

C24_Witness ==
  /\ Called("QuantizerCelebi.quantize")
  /\ SingleColor(call.pixels)
  /\ Len(call.pixels) = MaxPixels
  /\ call.maxColors > 1
  /\ Len(call.wuResult) = 1
  /\ returned[1][call.pixels[1]] = MaxPixels

ResultCountInRange ==
  /\ InCreateBoxes \/ Called("QuantizerWu.quantize") =>
       call.frame.generatedColorCount \in 1..call.maxColors
  /\ Called("QuantizerWu.quantize") => Len(returned[1]) <= call.maxColors

\* C25: createBoxes terminates for every histogram and every maxColors of 1
\* or more, also when a cut fails and the loop index is stepped back; its
\* resultCount is between 1 and maxColors, and QuantizerWu.quantize returns
\* at most maxColors colors.
C25_CreateBoxesTerminates == [](ResultCountInRange) /\ (InCreateBoxes ~> Quantized)

\* QuantizerWu.quantize has returned after a failed cut of the first box,
\* which still holds two colors: its variance is above 0, the entry of
\* volumeVariance was reset to 0 and the loop broke before maxColors
C25_Witness ==
  /\ Called("QuantizerWu.quantize")
  /\ call.frame.broke
  /\ call.frame.generatedColorCount = 2
  /\ call.maxColors = 3
  /\ call.frame.i = 1
  /\ Greater(variance(call.countByColor, call.frame.cubes[1]), Quotient(0, 1))
  /\ call.frame.volumeVariance[1] = Quotient(0, 1)

\* x <= y for two numbers of four bytes
NumberAtMost(x, y) ==
  \/ x[1] < y[1]
  \/ x[1] = y[1] /\ x[2] < y[2]
  \/ x[1] = y[1] /\ x[2] = y[2] /\ x[3] < y[3]
  \/ x[1] = y[1] /\ x[2] = y[2] /\ x[3] = y[3] /\ x[4] <= y[4]

\* C29 (as stated): every color returned by QuantizerWu.quantize is an ARGB
\* in the unsigned 32-bit form: it lies in [0xFF000000, 0xFFFFFFFF] and is
\* argbFromRgb of its own red, green and blue.
C29_WuColorsUnsigned ==
  Called("QuantizerWu.quantize") =>
    \A k \in 1..Len(returned[1]) :
      /\ NumberAtMost(<<255, 0, 0, 0>>, returned[1][k])
      /\ NumberAtMost(returned[1][k], <<255, 255, 255, 255>>)
      /\ returned[1][k] = argbFromRgb(redFromArgb(returned[1][k]), greenFromArgb(returned[1][k]),
                                      blueFromArgb(returned[1][k]))

\* QuantizerWu.quantize has returned a color below 0
C29_Witness ==
  /\ Called("QuantizerWu.quantize")
  /\ Len(returned[1]) > 0
  /\ \A k \in 1..Len(returned[1]) : ~NumberAtMost(<<0, 0, 0, 0>>, returned[1][k])

(***************************************************************************)
(* The range of the tones of getTone                                       *)
(***************************************************************************)
\* the raw tones of all roles are in [0,100] and the deltas of their tone
\* delta pairs in [0,100]
RawTonesAndDeltasInRange ==
  \A k \in DOMAIN roles :
    /\ roles[k].tone \in 0..1000
    /\ roles[k].toneDeltaPair # <<>> => roles[k].toneDeltaPair[1].delta \in 0..1000

\* C26 (as stated): every tone returned by getTone lies in [0,100], for
\* roles whose raw tones are in [0,100] and tone delta pairs whose delta is
\* in [0,100], whatever the polarity, the constraint and stayTogether.
C26_ToneInRange ==
  asked # "none" /\ RawTonesAndDeltasInRange => toneOut \in 0..1000

\* the role of a pair with the constraint "farther" is asked; the tone of
\* its partner plus the delta is above 100, the role has no contrast curve
\* for the scheme and is no background role, and the tone returned is that
\* sum
C26_Witness ==
  /\ asked = "a"
  /\ RawTonesAndDeltasInRange
  /\ roles["a"].toneDeltaPair[1].constraint = "farther"
  /\ absoluteDelta2025(roles["a"].toneDeltaPair[1], scheme.isDark) > 0
  /\ roles["a"].contrastCurve = <<>>
  /\ ~roles["a"].isBackground
  /\ toneOut = getTone(scheme, roles, "b") + roles["a"].toneDeltaPair[1].delta
  /\ toneOut > 1000

\* ---------------------------------------------------------------------------
\* HctSolver.bisectToLimit: the critical planes read while a segment of the
\* gamut boundary is narrowed, one round of the inner loop per step.
\* ---------------------------------------------------------------------------

\* Y_FROM_LINRGB in ten-thousandths
kR == 2126

kG == 7152

kB == 722

isBounded(x) == 0 <= x /\ x <= 100000

NoVertex == <<-1000, -1000, -1000>>

VertexCoordA(n) == IF n % 4 <= 1 THEN 0 ELSE 100000

VertexCoordB(n) == IF n % 2 = 0 THEN 0 ELSE 100000

VertexOrNone(free, vertex) == IF isBounded(free) THEN vertex ELSE NoVertex

\* nthVertex(y, n): the nth possible vertex of the intersection of the plane
\* of luminance y with the RGB cube
nthVertex(y, n) ==
  IF n < 4
    THEN LET g == VertexCoordA(n)
             b == VertexCoordB(n)
             r == (y * 10000 - g * kG - b * kB) \div kR
         IN VertexOrNone(r, <<r, g, b>>)
    ELSE IF n < 8
      THEN LET b == VertexCoordA(n)
               r == VertexCoordB(n)
               g == (y * 10000 - r * kR - b * kB) \div kG
           IN VertexOrNone(g, <<r, g, b>>)
      ELSE LET r == VertexCoordA(n)
               g == VertexCoordB(n)
               b == (y * 10000 - r * kR - g * kG) \div kB
           IN VertexOrNone(b, <<r, g, b>>)

\* the vertices bisectToSegment chooses the two endpoints from
Vertices(y) == {nthVertex(y, n) : n \in 0..11} \ {NoVertex}

\* trueDelinearized(rgbComponent) in halves of an sRGB step: the transfer
\* function is increasing and takes the value k + 0.5 on critical plane k, so a
\* component on plane k gives 2k + 1 and a component between two planes the
\* even number between their odd ones.
trueDelinearized(rgbComponent) ==
  IF \E k \in 1..Len(CRITICAL_PLANES) : CRITICAL_PLANES[k] = rgbComponent
    THEN 2 * delinearized(rgbComponent) - 1
    ELSE 2 * delinearized(rgbComponent)

\* Math.floor(x - 0.5)
criticalPlaneBelow(x) == (x - 1) \div 2

\* Math.ceil(x - 0.5)
criticalPlaneAbove(x) == x \div 2

\* (mid - source) / (target - source), in ten-thousandths
intercept(source, mid, target) == ((mid - source) * 10000) \div (target - source)

lerpPoint(source, t, target) ==
  <<source[1] + ((target[1] - source[1]) * t) \div 10000,
    source[2] + ((target[2] - source[2]) * t) \div 10000,
    source[3] + ((target[3] - source[3]) * t) \div 10000>>

setCoordinate(source, coordinate, target, axis) ==
  lerpPoint(source, intercept(source[axis + 1], coordinate, target[axis + 1]), target)

midpoint(a, b) ==
  <<(a[1] + b[1]) \div 2, (a[2] + b[2]) \div 2, (a[3] + b[3]) \div 2>>

\* the inner loop goes on while the two planes are the same plane only
BracketClosed_SamePlane(lPlane, rPlane) == rPlane = lPlane

\* Math.abs(rPlane - lPlane) <= 1
BracketClosed(lPlane, rPlane) == Abs(rPlane - lPlane) <= 1

\* Math.floor((lPlane + rPlane) / 2)
MiddlePlane(lPlane, rPlane) == (lPlane + rPlane) \div 2

\* CRITICAL_PLANES[mPlane] of the zero-based array; reading outside of it
\* gives undefined, which the arithmetic that follows turns into NaN
PlaneCoordinate(mPlane) ==
  IF mPlane \in 0..(Len(CRITICAL_PLANES) - 1) THEN CRITICAL_PLANES[mPlane + 1] ELSE 0

\* the luminances of a nearly black, a dark, a middle and a nearly white color
BisectYs == {20, 18419, 50000, 99900}

\* hues of the midpoints, as hueOf may give them, around the target hue
MidHues == {50, -160}

\* the hue asked for, and the hue of the left endpoint
TargetHues == {100}

LeftHues == {10}

InBisect(pc) == call # <<>> /\ call.op = "bisectToLimit" /\ call.pc = pc

BisectFrame(pc, targetHue, left, leftHue, right, axis, i, lPlane, rPlane, mPlane) ==
  [op |-> "bisectToLimit", pc |-> pc, targetHue |-> targetHue, left |-> left, leftHue |-> leftHue, right |-> right, axis |-> axis, i |-> i, lPlane |-> lPlane, rPlane |-> rPlane, mPlane |-> mPlane]

\* bisectToLimit up to its loop over the axes: the segment of bisectToSegment
BisectBegin(y, targetHue, left, leftHue, right) ==
  /\ call = <<>>
  /\ call' = BisectFrame("axis", targetHue, left, leftHue, right, 0, 0, -1, 255, <<>>)
  /\ UNCHANGED <<objectVars, returned>>

\* the planes an axis starts from
FirstLeftPlane(left, right) ==
  IF left < right
    THEN criticalPlaneBelow(trueDelinearized(left))
    ELSE criticalPlaneAbove(trueDelinearized(left))

FirstRightPlane(left, right) ==
  IF left < right
    THEN criticalPlaneAbove(trueDelinearized(right))
    ELSE criticalPlaneBelow(trueDelinearized(right))

\* the head of the loop over the axes
BisectAxis ==
  /\ InBisect("axis")
  /\ call.axis < 3
  /\ call' = IF call.left[call.axis + 1] # call.right[call.axis + 1]
               THEN [call EXCEPT !.pc = "round", !.i = 0,
                                 !.lPlane = FirstLeftPlane(call.left[call.axis + 1], call.right[call.axis + 1]),
                                 !.rPlane = FirstRightPlane(call.left[call.axis + 1], call.right[call.axis + 1]),
                                 !.mPlane = <<>>]
               ELSE [call EXCEPT !.axis = call.axis + 1]
  /\ UNCHANGED <<objectVars, returned>>

AfterPlaneRead(frame, mPlane, mid, midHue) ==
  IF areInCyclicOrder(frame.leftHue, frame.targetHue, midHue)
    THEN [frame EXCEPT !.right = mid, !.rPlane = mPlane, !.mPlane = <<mPlane>>, !.i = frame.i + 1]
    ELSE [frame EXCEPT !.left = mid, !.leftHue = midHue, !.lPlane = mPlane, !.mPlane = <<mPlane>>, !.i = frame.i + 1]

RoundOf(frame, mPlane, midHue) ==
  AfterPlaneRead(frame, mPlane, setCoordinate(frame.left, PlaneCoordinate(mPlane), frame.right, frame.axis), midHue)

\* one round of the inner loop: it ends the axis or reads a plane
BisectRound(midHue) ==
  /\ InBisect("round")
  /\ call' = IF call.i >= 8 \/ BracketClosed(call.lPlane, call.rPlane)
               THEN [call EXCEPT !.pc = "axis", !.axis = call.axis + 1]
               ELSE RoundOf(call, MiddlePlane(call.lPlane, call.rPlane), midHue)
  /\ UNCHANGED <<objectVars, returned>>

BisectReturn ==
  /\ InBisect("axis")
  /\ call.axis = 3
  /\ call' = [call EXCEPT !.pc = "done"]
  /\ returned' = midpoint(call.left, call.right)
  /\ UNCHANGED objectVars

NextBisect ==
  \/ \E y \in BisectYs, targetHue \in TargetHues, leftHue \in LeftHues : \E left \in Vertices(y), right \in Vertices(y) : BisectBegin(y, targetHue, left, leftHue, right)
  \/ BisectAxis
  \/ \E midHue \in MidHues : BisectRound(midHue)
  \/ BisectReturn

SpecBisect == InitQuantize /\ [][NextBisect]_vars

PlaneRead == call # <<>> /\ call.op = "bisectToLimit" /\ call.mPlane # <<>>

\* C30: every index mPlane that bisectToLimit uses to read CRITICAL_PLANES lies
\* in 0..254, on every round of every axis, for segment endpoints whose
\* coordinates lie in [0, 100].
C30_PlaneIndexInRange == PlaneRead => call.mPlane[1] \in 0..254

\* the first plane of the array is read on the eighth round of an axis
C30_Witness ==
  /\ PlaneRead
  /\ call.mPlane[1] = 0
  /\ call.i = 8
  /\ \A axis \in 1..3 : isBounded(call.left[axis]) /\ isBounded(call.right[axis])

\* ---------------------------------------------------------------------------
\* The Hct that DynamicColor.getHct returns is the object its cache holds:
\* a setter called on it by the caller changes the entry of the cache.
\* ---------------------------------------------------------------------------

\* the caller still holds the object of the last getHct call, which is the
\* entry of the cache for that scheme
HoldsReturned ==
  /\ cacheCall.op \in {"getHct", "set hue", "set chroma", "set tone"}
  /\ cacheCall.scheme \in DOMAIN hctCache

\* the schemes whose cached object a caller has changed
ChangedSchemes == {id \in DOMAIN hctCache : hctCache[id] # FreshHct(<<>>, id)}

\* the caller changes the objects of so many schemes at most
MaxChanged == 1

\* the schemes of the calls: one of each spec version
SharedSchemes == {1, 3}

\* a setter of the returned object: setInternalState on the cached entry
SetOnReturned(op, hue, chroma, tone) ==
  /\ HoldsReturned
  /\ Cardinality(ChangedSchemes \cup {cacheCall.scheme}) <= MaxChanged
  /\ \E argb \in SolveOutcomes(hue, chroma, tone) :
       /\ hctCache' = [hctCache EXCEPT ![cacheCall.scheme] = setInternalState(argb)]
       /\ cacheCall' = CacheCall(op, cacheCall.scheme, FALSE, setInternalState(argb))
  /\ UNCHANGED <<paletteCache, toneVars, solver, hctVars, buildVars, callVars>>

\* color.getHct(scheme).hue = newHue
ReturnedSetHue(newHue) ==
  SetOnReturned("set hue", newHue, cacheCall.answer.internalChroma, cacheCall.answer.internalTone)

\* color.getHct(scheme).chroma = newChroma
ReturnedSetChroma(newChroma) ==
  SetOnReturned("set chroma", cacheCall.answer.internalHue, newChroma, cacheCall.answer.internalTone)

\* color.getHct(scheme).tone = newTone
ReturnedSetTone(newTone) ==
  SetOnReturned("set tone", cacheCall.answer.internalHue, cacheCall.answer.internalChroma, newTone)

\* the values the caller sets: a hue, no chroma, black and a middle tone
ReturnedHues == {2741}

ReturnedChromas == {0}

ReturnedTones == {0, 500}

NextShared ==
  \/ \E id \in SharedSchemes : GetHct(id)
  \/ \E id \in SharedSchemes : GetArgb(id)
  \/ \E newHue \in ReturnedHues : ReturnedSetHue(newHue)
  \/ \E newChroma \in ReturnedChromas : ReturnedSetChroma(newChroma)
  \/ \E newTone \in ReturnedTones : ReturnedSetTone(newTone)

SpecShared == InitCache /\ [][NextShared]_vars

GetterCalled == cacheCall.op \in {"getHct", "getArgb"}

\* C28: whatever a caller did to the Hct objects that getHct returned, a later
\* getHct or getArgb for the same color and scheme returns the color of the
\* scheme, as computed afresh.
C28_ReturnedHctIsolated == GetterCalled => cacheCall.answer.argb = FreshHct(<<>>, cacheCall.scheme).argb

\* getArgb answers from the cache with black, the tone the caller set on the
\* returned object, for a scheme whose color is not black
C28_Witness ==
  /\ cacheCall.op = "getArgb"
  /\ cacheCall.fromCache
  /\ cacheCall.answer.argb = <<255, 0, 0, 0>>
  /\ FreshHct(<<>>, cacheCall.scheme).argb # <<255, 0, 0, 0>>

\* ---------------------------------------------------------------------------
\* The built-in role table (ColorSpecDelegateImpl2021, ...2025) and the calls
\* getTone makes while it resolves a role: one call or return per step.
\* ---------------------------------------------------------------------------
Families == {"primary", "secondary", "tertiary", "error"}

\* the families that have fixed roles
FixedFamilies == {"primary", "secondary", "tertiary"}

Dim(family) == family \o "_dim"

Container(family) == family \o "_container"

Fixed(family) == family \o "_fixed"

FixedDim(family) == family \o "_fixed_dim"

On(role) == "on_" \o role

OnFixedVariant(family) == "on_" \o family \o "_fixed_variant"

NoRole == "none"

\* roles without a reference to another role in either table
PlainRoles ==
  {"primary_palette_key_color", "secondary_palette_key_color", "tertiary_palette_key_color",
   "neutral_palette_key_color", "neutral_variant_palette_key_color", "error_palette_key_color",
   "background", "surface", "surface_dim", "surface_bright", "surface_container_lowest",
   "surface_container_low", "surface_container", "surface_container_high",
   "surface_container_highest", "surface_variant", "inverse_surface", "shadow", "scrim"}

\* on_surface, on_surface_variant, outline, outline_variant
SurfaceForegrounds == {"on_surface", "on_surface_variant", "outline", "outline_variant"}

InverseForegrounds == {"inverse_on_surface", "inverse_primary"}

AccentDimRoles == {Dim(f) : f \in Families}

ContainerRoles == {Container(f) : f \in Families}

FixedRoles == {Fixed(f) : f \in FixedFamilies}

FixedDimRoles == {FixedDim(f) : f \in FixedFamilies}

OnFixedRoles == {On(Fixed(f)) : f \in FixedFamilies} \cup {OnFixedVariant(f) : f \in FixedFamilies}

\* every role MaterialDynamicColors offers
RoleNames ==
  PlainRoles \cup SurfaceForegrounds \cup InverseForegrounds \cup {"on_background", "surface_tint"}
    \cup Families \cup AccentDimRoles \cup ContainerRoles \cup FixedRoles \cup FixedDimRoles
    \cup {On(r) : r \in Families \cup ContainerRoles} \cup OnFixedRoles

\* the family of a role that is K(family)
FamilyOf(role, K(_)) == CHOOSE f \in Families : role = K(f)

OnFixedFamily(role) == CHOOSE f \in FixedFamilies : role \in {On(Fixed(f)), OnFixedVariant(f)}

\* the role a role of the form on_<role> stands on
Under(role) == CHOOSE r \in Families \cup ContainerRoles : role = On(r)

highestSurface(s) == IF s.isDark THEN "surface_bright" ELSE "surface_dim"

isFidelity(s) == s.variant \in {"FIDELITY", "CONTENT"}

\* the field background of the 2021 roles
background2021(role, s) ==
  IF role = "on_background" THEN "background"
  ELSE IF role \in SurfaceForegrounds \cup Families \cup ContainerRoles \cup FixedRoles \cup FixedDimRoles THEN highestSurface(s)
  ELSE IF role \in InverseForegrounds THEN "inverse_surface"
  ELSE IF role \in {On(r) : r \in Families \cup ContainerRoles} THEN Under(role)
  ELSE IF role \in OnFixedRoles THEN FixedDim(OnFixedFamily(role))
  ELSE NoRole

\* the field secondBackground of the 2021 roles
secondBackground2021(role, s) ==
  IF role \in OnFixedRoles THEN Fixed(OnFixedFamily(role)) ELSE NoRole

\* roleA and roleB of the field toneDeltaPair of the 2021 roles
toneDeltaPair2021(role, s) ==
  IF role \in Families THEN <<Container(role), role>>
  ELSE IF role \in ContainerRoles THEN <<role, FamilyOf(role, Container)>>
  ELSE IF role \in FixedRoles THEN <<role, FixedDim(FamilyOf(role, Fixed))>>
  ELSE IF role \in FixedDimRoles THEN <<Fixed(FamilyOf(role, FixedDim)), role>>
  ELSE <<>>

\* every 2021 role with a background has a contrast curve, and no other has
contrastCurve2021(role, s) == background2021(role, s) # NoRole

\* the tone function of on_<family>_container reads the tone function of the
\* container in the fidelity variants; on_error_container reads none
toneCalls2021(role, s) ==
  IF role \in {On(Container(f)) : f \in FixedFamilies} /\ isFidelity(s)
    THEN <<[role |-> Under(role), kind |-> "tone", scheme |-> s]>>
    ELSE <<>>

\* the background of the accent roles and of the foregrounds of the surfaces
SurfaceUnder2025(s) == IF s.platform = "phone" THEN highestSurface(s) ELSE "surface_container_high"

\* the field background of the 2025 roles; surface_tint is a clone of primary,
\* on_background one of on_surface
background2025(role, s) ==
  IF role \in SurfaceForegrounds \cup Families \cup {"on_background", "surface_tint"} THEN SurfaceUnder2025(s)
  ELSE IF role \in InverseForegrounds THEN "inverse_surface"
  ELSE IF role \in AccentDimRoles THEN "surface_container_high"
  ELSE IF role \in {On(f) : f \in Families} THEN (IF s.platform = "phone" THEN Under(role) ELSE Dim(Under(role)))
  ELSE IF role \in ContainerRoles \cup FixedRoles THEN (IF s.platform = "phone" THEN highestSurface(s) ELSE NoRole)
  ELSE IF role \in {On(r) : r \in ContainerRoles} THEN Under(role)
  ELSE IF role \in OnFixedRoles THEN FixedDim(OnFixedFamily(role))
  ELSE NoRole

\* the 2025 roles have no second background
secondBackground2025(role, s) == NoRole

\* the pair of a container holds on every platform
ContainerPair2025_AnyPlatform(family, s) == <<Container(family), Dim(family)>>

\* the pair of a container: on the watch only
ContainerPair2025(family, s) ==
  IF s.platform = "watch" THEN <<Container(family), Dim(family)>> ELSE <<>>

\* roleA and roleB of the field toneDeltaPair of the 2025 roles
toneDeltaPair2025(role, s) ==
  IF role \in Families THEN (IF s.platform = "phone" THEN <<Container(role), role>> ELSE <<>>)
  ELSE IF role = "surface_tint" THEN (IF s.platform = "phone" THEN <<"primary_container", "primary">> ELSE <<>>)
  ELSE IF role \in AccentDimRoles THEN <<role, FamilyOf(role, Dim)>>
  ELSE IF role \in ContainerRoles THEN ContainerPair2025(FamilyOf(role, Container), s)
  ELSE IF role \in FixedDimRoles THEN <<role, Fixed(FamilyOf(role, FixedDim))>>
  ELSE <<>>

contrastCurve2025(role, s) ==
  IF role \in ContainerRoles \cup FixedRoles THEN s.platform = "phone" /\ s.contrastLevel > 0
  ELSE background2025(role, s) # NoRole

\* Object.assign({}, s, { isDark: false, contrastLevel: 0 })
tempS(s) == [s EXCEPT !.isDark = FALSE, !.contrastLevel = 0]

\* the tone function of <family>_fixed resolves the container in a light
\* scheme of contrast 0, that of <family>_fixed_dim resolves <family>_fixed
toneCalls2025(role, s) ==
  IF role \in FixedRoles
    THEN <<[role |-> Container(FamilyOf(role, Fixed)), kind |-> "getTone", scheme |-> tempS(s)]>>
  ELSE IF role \in FixedDimRoles
    THEN <<[role |-> Fixed(FamilyOf(role, FixedDim)), kind |-> "getTone", scheme |-> s]>>
  ELSE <<>>

\* extendSpecVersion: a role has the fields of its 2025 color in a scheme of
\* the 2025 spec and those of the 2021 color otherwise; the dim roles are 2025
\* colors in every scheme
Has2025Fields(role, s) == s.specVersion = "2025" \/ role \in AccentDimRoles

RoleBackground(role, s) ==
  IF Has2025Fields(role, s) THEN background2025(role, s) ELSE background2021(role, s)

RoleSecondBackground(role, s) ==
  IF Has2025Fields(role, s) THEN secondBackground2025(role, s) ELSE secondBackground2021(role, s)

RoleToneDeltaPair(role, s) ==
  IF Has2025Fields(role, s) THEN toneDeltaPair2025(role, s) ELSE toneDeltaPair2021(role, s)

RoleContrastCurve(role, s) ==
  IF Has2025Fields(role, s) THEN contrastCurve2025(role, s) ELSE contrastCurve2021(role, s)

\* the calls of role.tone(s)
ToneCalls(role, s) ==
  IF Has2025Fields(role, s) THEN toneCalls2025(role, s) ELSE toneCalls2021(role, s)

ToneOf(role, s) == [role |-> role, kind |-> "tone", scheme |-> s]

GetToneOf(role, s) == [role |-> role, kind |-> "getTone", scheme |-> s]

\* the branch without a pair, the same calls in both delegates: the tone
\* function, the background, and the two backgrounds again
UnpairedCalls(role, s) ==
  <<ToneOf(role, s)>> \o
    (IF RoleBackground(role, s) = NoRole \/ ~RoleContrastCurve(role, s) THEN <<>>
     ELSE <<GetToneOf(RoleBackground(role, s), s)>> \o
       (IF RoleSecondBackground(role, s) = NoRole THEN <<>>
        ELSE <<GetToneOf(RoleBackground(role, s), s), GetToneOf(RoleSecondBackground(role, s), s)>>))

\* ColorCalculationDelegateImpl2021.getTone with a pair: the tone functions of
\* both roles, then the background when both roles have a contrast curve
PairedCalls2021(role, pair, s) ==
  <<ToneOf(pair[1], s), ToneOf(pair[2], s)>> \o
    (IF RoleBackground(role, s) # NoRole /\ RoleContrastCurve(pair[1], s) /\ RoleContrastCurve(pair[2], s)
       THEN <<GetToneOf(RoleBackground(role, s), s)>>
       ELSE <<>>)

\* selfRole and refRole: roleA is the role itself only by its name
SelfRole(role, pair) == IF role = pair[1] THEN pair[1] ELSE pair[2]

RefRole(role, pair) == IF role = pair[1] THEN pair[2] ELSE pair[1]

\* ColorCalculationDelegateImpl2025.getTone with a pair: the tone function of
\* the role, the resolved tone of the other role, then the background
PairedCalls2025(role, pair, s) ==
  <<ToneOf(SelfRole(role, pair), s), GetToneOf(RefRole(role, pair), s)>> \o
    (IF RoleBackground(role, s) # NoRole /\ RoleContrastCurve(role, s)
       THEN <<GetToneOf(RoleBackground(role, s), s)>>
       ELSE <<>>)

\* getSpec(scheme.specVersion).getTone(scheme, color)
GetToneCalls(role, s) ==
  IF RoleToneDeltaPair(role, s) = <<>> THEN UnpairedCalls(role, s)
  ELSE IF s.specVersion = "2025" THEN PairedCalls2025(role, RoleToneDeltaPair(role, s), s)
  ELSE PairedCalls2021(role, RoleToneDeltaPair(role, s), s)

Platforms == {"phone", "watch"}

ResolveContrastLevels == {0, 100}

BuiltInSchemes ==
  [specVersion : {"2021", "2025"}, platform : Platforms, isDark : BOOLEAN, contrastLevel : ResolveContrastLevels, variant : Variant]

\* the calls of every function of every role in every scheme
CallsTable ==
  [role \in RoleNames, kind \in {"getTone", "tone"}, s \in BuiltInSchemes |->
     IF kind = "getTone" THEN GetToneCalls(role, s) ELSE ToneCalls(role, s)]

CallsOf(frame) == CallsTable[frame.role, frame.kind, frame.scheme]

\* the deepest stack of calls the model follows
MaxDepth == 12

Resolving == call # <<>> /\ call.op = "getTone" /\ call.stack # <<>>

Resolved == call # <<>> /\ call.op = "getTone" /\ call.stack = <<>>

Top == call.stack[Len(call.stack)]

Entered(target) == [role |-> target.role, kind |-> target.kind, scheme |-> target.scheme, position |-> 1]

\* role.getTone(scheme) is called
ResolveBegin(role, s) ==
  /\ call = <<>>
  /\ call' = [op |-> "getTone", role |-> role, scheme |-> s, stack |-> <<Entered(GetToneOf(role, s))>>]
  /\ UNCHANGED <<objectVars, returned>>

\* the function on top of the stack makes its next call
ResolveCall ==
  /\ Resolving
  /\ Top.position <= Len(CallsOf(Top))
  /\ Len(call.stack) < MaxDepth
  /\ call' = [call EXCEPT !.stack = [@ EXCEPT ![Len(@)].position = @ + 1] \o <<Entered(CallsOf(Top)[Top.position])>>]
  /\ UNCHANGED <<objectVars, returned>>

\* the function on top of the stack has made all its calls and returns
ResolveReturn ==
  /\ Resolving
  /\ Top.position > Len(CallsOf(Top))
  /\ call' = [call EXCEPT !.stack = SubSeq(@, 1, Len(@) - 1)]
  /\ returned' = IF Len(call.stack) = 1 THEN <<call.role>> ELSE returned
  /\ UNCHANGED objectVars

NextResolve ==
  \/ call = <<>> /\ \E role \in RoleNames, s \in BuiltInSchemes : ResolveBegin(role, s)
  \/ ResolveCall
  \/ ResolveReturn

SpecResolve ==
  InitQuantize /\ [][NextResolve]_vars /\ WF_vars(ResolveCall) /\ WF_vars(ResolveReturn)

\* no function of a role is entered while it is still running
NoRoleEnteredTwice ==
  Resolving =>
    \A i, j \in 1..Len(call.stack) :
      (call.stack[i].role = call.stack[j].role /\ call.stack[i].kind = call.stack[j].kind) => i = j

====
